---- MODULE Spec2Model ----
(***************************************************************************)
(* A model of the analysis engine of keyhole-py.                           *)
(*                                                                         *)
(* Part I   EnhancedAnalyzer.analyze_collection_indexes and the passes it  *)
(*          runs (src/src/enhanced_analysis.py, lines 131-347).            *)
(* Part II  EnhancedAnalyzer.calculate_fragmentation (lines 640-679).      *)
(* Part III EnhancedAnalyzer.analyze_collection_structure and the document *)
(*          walks it uses (lines 349-634, 681-724).                        *)
(* Part IV  the DatabaseStats that _collect_single_database_stats builds   *)
(*          (src/src/cluster_stats.py, lines 343-367).                     *)
(* Part V   EnhancedAnalyzer.analyze_cluster_health (lines 764-870).       *)
(* Part VI  ClusterStatsCollector.collect_all_stats with its database pool *)
(*          and collection pools (src/src/cluster_stats.py, lines 161-199  *)
(*          and 303-509) over the wrappers of src/src/mongodb_client.py.   *)
(* Part VII the sequential enhancement pass over collected collections     *)
(*          (src/src/cluster_stats.py, lines 476-509) with the analyzer's  *)
(*          size-stats cache (src/src/enhanced_analysis.py, lines 129,     *)
(*          450-461, 636-638).                                             *)
(*                                                                         *)
(* Representation of Python values:                                        *)
(*   - a str that the code formats, rewrites or sorts (key_string,         *)
(*     effective_key) is the sequence of its characters, each a one-char   *)
(*     string; Ord gives the code point the comparison of str uses;        *)
(*   - a message built by an f-string (an issue, a recommendation          *)
(*     fragment) is a TLA+ string built with \o;                           *)
(*   - DetailedIndex.recommendation is the sequence of the fragments that  *)
(*     the code joins with "; " (no fragment contains "; " and none is     *)
(*     empty, so the sequence and the joined text determine each other;    *)
(*     RecText gives the text, <<>> is the empty string "");               *)
(*   - an index direction is a tagged value: Python ints and strs are      *)
(*     both legal directions ({a: 1}, {a: -1}, {a: "hashed"}).             *)
(***************************************************************************)
EXTENDS Integers, Sequences, FiniteSets, TLC

VARIABLES
    coll,               \* the collection on the server: its index documents
                        \* and what the $indexStats aggregation does on it
    pc,                 \* position inside analyze_collection_indexes
    usage_outcome,      \* how the $indexStats aggregation of this call ended
    index_usage_stats,  \* dict name -> total_ops built by _get_index_usage_stats
    indexes,            \* the raw index definitions returned by get_indexes
    detailed_indexes,   \* the local list detailed_indexes
    result,             \* the value returned by analyze_collection_indexes
    storage_size,       \* calculate_fragmentation: argument storage_size
    data_size,          \* calculate_fragmentation: argument data_size
    frag_metrics,       \* calculate_fragmentation: the dict it returns
    sample,             \* what the sampling aggregation of
                        \* analyze_collection_structure returns on the server
    wraps,              \* how many times documents of the sample were nested
    cached,             \* _collection_stats_cache entry of the namespace
    spc,                \* position inside analyze_collection_structure
    todo,               \* the documents of sample_docs not yet processed
    acc,                \* the local lists and dicts of the loop
    analysis,           \* the CollectionStructureAnalysis under construction
    db_stats_raw,       \* what get_database_stats returns for the database
    db_stats,           \* the DatabaseStats built from it
    server_status,      \* what the serverStatus command gives analyze_cluster_health
    collections_data,   \* the collections_data argument of analyze_cluster_health
    health_report,      \* the report analyze_cluster_health returns
    cluster,            \* the databases and collections of the cluster
    reachable,          \* whether the driver's calls reach the cluster
    fast_mode,          \* the fast_mode argument of collect_all_stats
    include_databases,  \* the include_databases argument of collect_all_stats
    cpc,                \* position of the thread that runs collect_all_stats
    stats,              \* the ClusterStats being filled
    db_tasks,           \* the futures of the database pool, in submission order
    log,                \* the records written with logger.error
    health_call,        \* how _perform_enhanced_analysis called analyze_cluster_health
    epc,                \* position of the thread in the enhancement pass
    pass,               \* which pass over this collector's analyzer is under way
    collected,          \* stats.collections as the pass finds and fills it
    position,           \* the collection the loop of lines 477-479 is at
    collection_stats_cache, \* EnhancedAnalyzer._collection_stats_cache
    cache_events,       \* the writes and reads of the cache in this pass, in order
    enh_log             \* the records the pass wrote with logger.error

ivars == <<coll, pc, usage_outcome, index_usage_stats, indexes, detailed_indexes, result>>
fvars == <<storage_size, data_size, frag_metrics>>
svars == <<sample, wraps, cached, spc, todo, acc, analysis>>
dvars == <<db_stats_raw, db_stats>>
hvars == <<server_status, collections_data, health_report>>
cvars == <<cluster, reachable, fast_mode, include_databases, cpc, stats, db_tasks, log,
           health_call>>
evars == <<epc, pass, collected, position, collection_stats_cache, cache_events, enh_log>>
vars  == <<ivars, fvars, svars, dvars, hvars, cvars, evars>>

\* the variables a part of the model leaves alone
beyondIndex   == <<fvars, svars, dvars, hvars, cvars, evars>>
beyondFrag    == <<ivars, svars, dvars, hvars, cvars, evars>>
beyondStruct  == <<ivars, fvars, dvars, hvars, cvars, evars>>
beyondDb      == <<ivars, fvars, svars, hvars, cvars, evars>>
beyondHealth  == <<ivars, fvars, svars, dvars, cvars, evars>>
beyondCollect == <<ivars, fvars, svars, dvars, hvars, evars>>
beyondEnhance == <<ivars, fvars, svars, dvars, hvars, cvars>>

\* no call of analyze_collection_indexes is under way
IndexIdle ==
    /\ coll = [indexes |-> <<>>, ops |-> <<>>]
    /\ pc = "idle"
    /\ usage_outcome = "none"
    /\ index_usage_stats = <<>>
    /\ indexes = <<>>
    /\ detailed_indexes = <<>>
    /\ result = <<>>

\* no call of calculate_fragmentation is under way
FragIdle ==
    /\ storage_size = 0
    /\ data_size = 0
    /\ frag_metrics = <<>>

\* no call of analyze_collection_structure is under way
StructIdle ==
    /\ sample = <<>>
    /\ wraps = <<>>
    /\ cached = <<>>
    /\ spc = "idle"
    /\ todo = <<>>
    /\ acc = <<>>
    /\ analysis = <<>>

\* no database statistics are being built
DbIdle ==
    /\ db_stats_raw = <<>>
    /\ db_stats = <<>>

\* no call of analyze_cluster_health is under way
HealthIdle ==
    /\ server_status = <<>>
    /\ collections_data = <<>>
    /\ health_report = <<>>

\* no call of collect_all_stats is under way
CollectIdle ==
    /\ cluster = <<>>
    /\ reachable = TRUE
    /\ fast_mode = FALSE
    /\ include_databases = <<>>
    /\ cpc = "idle"
    /\ stats = <<>>
    /\ db_tasks = <<>>
    /\ log = {}
    /\ health_call = "none"

\* no enhancement pass is under way
EnhanceIdle ==
    /\ epc = "idle"
    /\ pass = "none"
    /\ collected = <<>>
    /\ position = 0
    /\ collection_stats_cache = <<>>
    /\ cache_events = <<>>
    /\ enh_log = {}

-----------------------------------------------------------------------------
(* Bounds of the model                                                     *)

MaxIndexes == 3   \* index definitions per collection

-----------------------------------------------------------------------------
(* Python str as character sequences                                       *)

Ord(c) ==
    CASE c = " " -> 32 [] c = "," -> 44 [] c = "-" -> 45
      [] c = "0" -> 48 [] c = "1" -> 49 [] c = "2" -> 50 [] c = "3" -> 51
      [] c = "4" -> 52 [] c = "5" -> 53 [] c = "6" -> 54 [] c = "7" -> 55
      [] c = "8" -> 56 [] c = "9" -> 57 [] c = ":" -> 58 [] c = "_" -> 95
      [] c = "a" -> 97 [] c = "b" -> 98 [] c = "d" -> 100 [] c = "e" -> 101
      [] c = "h" -> 104 [] c = "i" -> 105 [] c = "s" -> 115
      [] c = "{" -> 123 [] c = "}" -> 125

\* s1 < s2 for Python str: code-point lexicographic, a proper prefix is smaller
RECURSIVE StrLess(_, _)
StrLess(s1, s2) ==
    IF s2 = <<>> THEN FALSE
    ELSE IF s1 = <<>> THEN TRUE
    ELSE IF Ord(Head(s1)) # Ord(Head(s2)) THEN Ord(Head(s1)) < Ord(Head(s2))
    ELSE StrLess(Tail(s1), Tail(s2))

StartsWith(s, p) == Len(s) >= Len(p) /\ SubSeq(s, 1, Len(p)) = p

\* str.replace(old, new): left to right, non-overlapping
RECURSIVE StrReplace(_, _, _)
StrReplace(s, old, new) ==
    IF s = <<>> THEN <<>>
    ELSE IF StartsWith(s, old)
         THEN new \o StrReplace(SubSeq(s, Len(old) + 1, Len(s)), old, new)
         ELSE <<Head(s)>> \o StrReplace(Tail(s), old, new)

\* ", ".join(parts) and the like
RECURSIVE StrJoin(_, _)
StrJoin(sep, parts) ==
    IF parts = <<>> THEN <<>>
    ELSE IF Len(parts) = 1 THEN parts[1]
    ELSE parts[1] \o sep \o StrJoin(sep, Tail(parts))

Digit(d) == <<"0", "1", "2", "3", "4", "5", "6", "7", "8", "9">>[d + 1]

\* str(n) of a Python int
RECURSIVE NatChars(_)
NatChars(n) == IF n < 10 THEN <<Digit(n)>> ELSE NatChars(n \div 10) \o <<Digit(n % 10)>>
IntChars(n) == IF n < 0 THEN <<"-">> \o NatChars(-n) ELSE NatChars(n)

\* the characters of the str values that occur as field names and directions
Chars(s) ==
    CASE s = "_id"    -> <<"_", "i", "d">>
      [] s = "a"      -> <<"a">>
      [] s = "b"      -> <<"b">>
      [] s = "hashed" -> <<"h", "a", "s", "h", "e", "d">>

-----------------------------------------------------------------------------
(* Index key values                                                        *)

IntDir(n) == [isint |-> TRUE,  n |-> n, s |-> ""]
StrDir(s) == [isint |-> FALSE, n |-> 0, s |-> s]

\* str(direction), as the f-string of line 212 formats it
DirChars(d) == IF d.isint THEN IntChars(d.n) ELSE Chars(d.s)

Fields == {"_id", "a"}
Dirs   == {IntDir(1), IntDir(-1), StrDir("hashed")}

\* a key is a Python dict in insertion order: a sequence of <<field, direction>>
\* pairs with distinct fields
KeyFields(key) == [k \in 1..Len(key) |-> key[k][1]]

\* dict.get(field): None when the field is absent
NoneValue == [isint |-> FALSE, n |-> 0, s |-> "None"]
KeyGet(key, f) ==
    IF \E k \in 1..Len(key) : key[k][1] = f
    THEN key[CHOOSE k \in 1..Len(key) : key[k][1] = f][2]
    ELSE NoneValue

\* dict.get(k, default) on a raw index document
Get(doc, k, default) == IF k \in DOMAIN doc THEN doc[k] ELSE default

Abs(n) == IF n < 0 THEN -n ELSE n

-----------------------------------------------------------------------------
(* _create_detailed_index, lines 204-240                                   *)

\* lines 209-213: "{" + ", ".join(f"{field}: {direction}" ...) + "}"
KeyString(key) ==
    <<"{">> \o StrJoin(<<",", " ">>,
                       [k \in 1..Len(key) |->
                           Chars(key[k][1]) \o <<":", " ">> \o DirChars(key[k][2])])
            \o <<"}">>

\* line 216: key_string.replace(": -1", ": 1")
EffectiveKey(key_string) ==
    StrReplace(key_string, <<":", " ", "-", "1">>, <<":", " ", "1">>)

CreateDetailedIndex(index, usage_stats) ==
    LET key  == Get(index, "key", <<>>)
        name == Get(index, "name", "")
    IN  [name                      |-> name,
         key                       |-> key,
         key_string                |-> KeyString(key),
         fields                    |-> KeyFields(key),
         effective_key             |-> EffectiveKey(KeyString(key)),
         sparse                    |-> Get(index, "sparse", FALSE),
         partial_filter_expression |-> Get(index, "partialFilterExpression", {}),
         expire_after_seconds      |-> Get(index, "expireAfterSeconds", -1),
         weights                   |-> Get(index, "weights", {}),
         is_shard_key              |-> FALSE,
         is_duplicate              |-> FALSE,
         total_ops                 |-> IF name \in DOMAIN usage_stats
                                       THEN usage_stats[name] ELSE 0,
         recommendation            |-> <<>>,
         issues                    |-> <<>>]

-----------------------------------------------------------------------------
(* _analyze_index_properties, lines 242-300                                *)

NoIssuesDetected == "No issues detected"
UnusedIssue      == "Unused index"
TTLIssue(secs)   == "TTL index with very short expiration (" \o ToString(secs) \o "s)"
TTLRec           == "Consider if TTL expiration is appropriate for your use case"
PartialRec       == "Partial index detected - ensure queries match the filter expression"
SparseRec        == "Sparse index detected - ensure queries handle null values correctly"
UnusedRec        == "Consider dropping unused indexes to improve write performance"
CompoundRec      == "Compound index - ensure optimal field ordering (equality before range)"
TextRec          == "Text index detected - monitor performance for text search queries"

When(cond, x) == IF cond THEN <<x>> ELSE <<>>

\* [x for x in xs if x not in ys]
RECURSIVE NotIn(_, _)
NotIn(xs, ys) ==
    IF xs = <<>> THEN <<>>
    ELSE (IF \E k \in 1..Len(ys) : ys[k] = Head(xs) THEN <<>> ELSE <<Head(xs)>>)
         \o NotIn(Tail(xs), ys)

\* the issues gathered by lines 259-276
PropertyIssues(index) ==
    LET ttl == index.expire_after_seconds
    IN  When(ttl > 0 /\ ttl < 60, TTLIssue(ttl))
        \o When(index.total_ops = 0 /\ index.name # "_id_", UnusedIssue)

\* the recommendations gathered by lines 259-285
PropertyRecommendations(index) ==
    LET ttl == index.expire_after_seconds
    IN  When(ttl > 0 /\ ttl < 60, TTLRec)
        \o When(index.partial_filter_expression # {}, PartialRec)
        \o When(index.sparse, SparseRec)
        \o When(index.total_ops = 0 /\ index.name # "_id_", UnusedRec)
        \o When(Len(index.fields) > 1, CompoundRec)
        \o When(index.weights # {}, TextRec)

\* MergeIssues without the `not in existing_issues` filter of line 289
MergeIssuesUnfiltered(existing_issues, issues) == existing_issues \o issues

\* lines 287-290
MergeIssues(existing_issues, issues) == existing_issues \o NotIn(issues, existing_issues)

\* MergeRecommendation assigning the new text whatever the index already carries
MergeRecommendationReplacing(existing_rec, recommendations) ==
    IF recommendations # <<>> THEN recommendations ELSE <<NoIssuesDetected>>

\* lines 292-298
MergeRecommendation(existing_rec, recommendations) ==
    LET new_rec == IF recommendations # <<>> THEN recommendations
                   ELSE <<NoIssuesDetected>>
    IN  IF existing_rec # <<>>
        THEN IF new_rec # <<NoIssuesDetected>> THEN existing_rec \o new_rec
             ELSE existing_rec
        ELSE new_rec

AnalyzeIndexProperties(index) ==
    [index EXCEPT
        !.is_shard_key   = FALSE,
        !.issues         = MergeIssues(index.issues, PropertyIssues(index)),
        !.recommendation = MergeRecommendation(index.recommendation,
                                               PropertyRecommendations(index))]

-----------------------------------------------------------------------------
(* detailed_indexes.sort(key=lambda x: x.effective_key), line 160          *)

\* list.sort is stable: x goes behind every element whose key is not greater
RECURSIVE InsertByKey(_, _)
InsertByKey(sorted, x) ==
    IF sorted = <<>> THEN <<x>>
    ELSE IF StrLess(x.effective_key, Head(sorted).effective_key)
         THEN <<x>> \o sorted
         ELSE <<Head(sorted)>> \o InsertByKey(Tail(sorted), x)

\* the list left in the order in which the indexes were listed
SortOmitted(list) == list

RECURSIVE SortByEffectiveKey(_)
SortByEffectiveKey(list) ==
    IF list = <<>> THEN <<>>
    ELSE InsertByKey(SortByEffectiveKey(SubSeq(list, 1, Len(list) - 1)),
                     list[Len(list)])

-----------------------------------------------------------------------------
(* _check_duplicate_indexes, lines 302-313                                 *)

\* the literal the exemption tests compare key_string with: "{ _id: 1 }"
IdKeyLiteral == <<"{", " ", "_", "i", "d", ":", " ", "1", " ", "}">>

\* lines 305, 318, 323
Skipped(index) == index.key_string = IdKeyLiteral \/ index.is_shard_key

DuplicateIssue(name) == "Duplicate of index " \o name

\* DuplicateInner flagging and annotating index1 only
RECURSIVE DuplicateInnerOneSided(_, _, _)
DuplicateInnerOneSided(list, i, j) ==
    IF j > Len(list) THEN list
    ELSE IF list[i].effective_key = list[j].effective_key
         THEN DuplicateInnerOneSided(
                [list EXCEPT
                    ![i].is_duplicate = TRUE,
                    ![i].issues = Append(@, DuplicateIssue(list[j].name))],
                i, j + 1)
         ELSE DuplicateInnerOneSided(list, i, j + 1)

RECURSIVE DuplicateInner(_, _, _)
DuplicateInner(list, i, j) ==
    IF j > Len(list) THEN list
    ELSE IF list[i].effective_key = list[j].effective_key
         THEN DuplicateInner(
                [list EXCEPT
                    ![i].is_duplicate = TRUE,
                    ![j].is_duplicate = TRUE,
                    ![i].issues = Append(@, DuplicateIssue(list[j].name)),
                    ![j].issues = Append(@, DuplicateIssue(list[i].name))],
                i, j + 1)
         ELSE DuplicateInner(list, i, j + 1)

RECURSIVE DuplicateOuter(_, _)
DuplicateOuter(list, i) ==
    IF i > Len(list) THEN list
    ELSE IF Skipped(list[i]) THEN DuplicateOuter(list, i + 1)
    ELSE DuplicateOuter(DuplicateInner(list, i, i + 1), i + 1)

CheckDuplicateIndexes(list) == DuplicateOuter(list, 1)

-----------------------------------------------------------------------------
(* _check_redundant_indexes, lines 315-347                                 *)

RedundantIssue(name) == "Redundant prefix of compound index " \o name
DropRec(name) == "Consider dropping this index - " \o name \o " can serve the same queries"

\* lines 327-329: index2's fields are a strict prefix of index1's
IsFieldPrefix(index2, index1) ==
    /\ Len(index2.fields) < Len(index1.fields)
    /\ index2.fields = SubSeq(index1.fields, 1, Len(index2.fields))

\* lines 331-338, the loop over index2.fields from position k on: "match",
\* "mismatch", or "raise" when abs() is applied to a value that is no number
\* (abs of a str or of None raises TypeError; `and` evaluates left to right)
RECURSIVE DirectionLoop(_, _, _)
DirectionLoop(index1, index2, k) ==
    IF k > Len(index2.fields) THEN "match"
    ELSE LET field1_dir == KeyGet(index1.key, index2.fields[k])
             field2_dir == KeyGet(index2.key, index2.fields[k])
         IN  IF field1_dir = field2_dir THEN DirectionLoop(index1, index2, k + 1)
             ELSE IF ~field1_dir.isint THEN "raise"
             ELSE IF Abs(field1_dir.n) # 1 THEN "mismatch"
             ELSE IF ~field2_dir.isint THEN "raise"
             ELSE IF Abs(field2_dir.n) # 1 THEN "mismatch"
             ELSE DirectionLoop(index1, index2, k + 1)

\* the pair (i, j) gets as far as the direction loop
ReachesDirections(list, i, j) ==
    /\ i # j
    /\ ~Skipped(list[i])
    /\ ~Skipped(list[j])
    /\ IsFieldPrefix(list[j], list[i])

RECURSIVE RedundantInner(_, _, _)
RedundantInner(list, i, j) ==
    IF j > Len(list) THEN list
    ELSE IF ReachesDirections(list, i, j)
            /\ DirectionLoop(list[i], list[j], 1) = "match"
         THEN RedundantInner(
                [list EXCEPT
                    ![j].is_duplicate = TRUE,
                    ![j].issues = @ \o NotIn(<<RedundantIssue(list[i].name)>>, @),
                    ![j].recommendation = <<DropRec(list[i].name)>>],
                i, j + 1)
         ELSE RedundantInner(list, i, j + 1)

RECURSIVE RedundantOuter(_, _)
RedundantOuter(list, i) ==
    IF i > Len(list) THEN list
    ELSE IF Skipped(list[i]) THEN RedundantOuter(list, i + 1)
    ELSE RedundantOuter(RedundantInner(list, i, 1), i + 1)

CheckRedundantIndexes(list) == RedundantOuter(list, 1)

\* some pair makes the direction loop raise; the exception leaves
\* _check_redundant_indexes and is caught at line 172
RedundantRaises(list) ==
    \E i, j \in 1..Len(list) :
        /\ ReachesDirections(list, i, j)
        /\ DirectionLoop(list[i], list[j], 1) = "raise"

-----------------------------------------------------------------------------
(* The collection on the server: what list_indexes and $indexStats return  *)

IdKey == << <<"_id", IntDir(1)>> >>

\* every key: a non-empty sequence of distinct fields, each with a direction
KeysOfLen(n) ==
    { key \in [1..n -> Fields \X Dirs] :
        \A k1, k2 \in 1..n : k1 # k2 => key[k1][1] # key[k2][1] }
Keys == UNION { KeysOfLen(n) : n \in 1..Cardinality(Fields) }

\* the server names the {_id: 1} index "_id_"; the others carry distinct
\* names of their own
IndexName(p, key) == IF key = IdKey THEN "_id_" ELSE "ix" \o ToString(p)

\* the options an index document may carry besides name and key; a document
\* lists only the options that were set
NoOptions == [v |-> 2]
IndexOptions ==
    { NoOptions,
      [v |-> 2, sparse |-> TRUE],
      [v |-> 2, partialFilterExpression |-> {"active"}],
      [v |-> 2, expireAfterSeconds |-> 30],
      [v |-> 2, expireAfterSeconds |-> 3600],
      [v |-> 2, weights |-> {"a"}],
      [v |-> 2, sparse |-> TRUE, partialFilterExpression |-> {"active"},
       expireAfterSeconds |-> 30, weights |-> {"a"}] }

IndexDocument(p, key, options) == [name |-> IndexName(p, key), key |-> key] @@ options

\* what $indexStats reports for one index: nothing (-1), or accesses.ops
UsedOps == 7
OpsReports == {-1, 0, UsedOps}

\* The lists the model explores.  An index is plain when it sets no option,
\* is reported as used and has numeric directions only.  Explored are every
\* list of at most MaxIndexes plain indexes, and every list with one index
\* that is not plain (options or usage of its own on an ascending key, or a
\* key with a non-numeric direction) among indexes with ascending keys.
IsNumeric(key)   == \A k \in 1..Len(key) : key[k][2].isint
IsAscending(key) == \A k \in 1..Len(key) : key[k][2] = IntDir(1)
HasNoOptions(doc) == doc = [name |-> doc.name, key |-> doc.key] @@ NoOptions
IsPlain(doc, ops) == HasNoOptions(doc) /\ ops = UsedOps /\ IsNumeric(doc.key)
Decorated(c) == {p \in 1..Len(c.indexes) : ~IsPlain(c.indexes[p], c.ops[p])}
WithinBounds(c) ==
    /\ Len(c.indexes) <= MaxIndexes
    /\ Cardinality({p \in 1..Len(c.indexes) : c.indexes[p].key = IdKey}) <= 1
    /\ \/ Decorated(c) = {}
       \/ /\ Cardinality(Decorated(c)) <= 1
          /\ \A p \in 1..Len(c.indexes) :
                \/ IsAscending(c.indexes[p].key)
                \/ HasNoOptions(c.indexes[p]) /\ c.ops[p] = UsedOps /\ p \in Decorated(c)

\* a failure of $indexStats is explored on the lists of ascending keys whose
\* indexes would all have been reported as used
FailureExplored(c) ==
    \A p \in 1..Len(c.indexes) : IsAscending(c.indexes[p].key) /\ c.ops[p] = UsedOps

\* the documents the $indexStats aggregation yields, one per reported index
RECURSIVE UsageDocs(_, _)
UsageDocs(list, ops) ==
    IF list = <<>> THEN <<>>
    ELSE (IF Head(ops) >= 0
          THEN <<[name |-> Head(list).name, accesses |-> [ops |-> Head(ops)]]>>
          ELSE <<>>) \o UsageDocs(Tail(list), Tail(ops))

-----------------------------------------------------------------------------
(* analyze_collection_indexes, lines 131-174                               *)

\* _get_index_usage_stats, lines 176-202: the dict built from the documents,
\* a later document for a name replacing an earlier one
RECURSIVE UsageDict(_, _)
UsageDict(docs, usage_stats) ==
    IF docs = <<>> THEN usage_stats
    ELSE LET index_name == Get(Head(docs), "name", "")
             accesses   == Get(Head(docs), "accesses", <<>>)
             total_ops  == Get(accesses, "ops", 0)
         IN  UsageDict(Tail(docs),
                       [n \in DOMAIN usage_stats \cup {index_name} |->
                           IF n = index_name THEN total_ops ELSE usage_stats[n]])

\* outcome "ok": the aggregation yields docs; "OperationFailure": $indexStats
\* is not supported; "Exception": any other failure.  Lines 196-202: both
\* handlers return {}
GetIndexUsageStats(outcome, docs) ==
    IF outcome = "ok" THEN UsageDict(docs, <<>>) ELSE <<>>

Init ==
    /\ coll = [indexes |-> <<>>, ops |-> <<>>]
    /\ pc = "setup"
    /\ usage_outcome = "none"
    /\ index_usage_stats = <<>>
    /\ indexes = <<>>
    /\ detailed_indexes = <<>>
    /\ result = <<>>
    /\ FragIdle
    /\ StructIdle
    /\ DbIdle
    /\ HealthIdle
    /\ CollectIdle
    /\ EnhanceIdle

\* the environment: an index is created on the collection
AscendingKeys == {key \in Keys : IsAscending(key)}
AddIndex ==
    /\ pc = "setup"
    /\ Len(coll.indexes) < MaxIndexes
    /\ \E options \in IndexOptions, ops \in OpsReports :
       \E key \in (IF options = NoOptions /\ ops = UsedOps THEN Keys ELSE AscendingKeys) :
          LET p == Len(coll.indexes) + 1
              c == [indexes |-> Append(coll.indexes, IndexDocument(p, key, options)),
                    ops     |-> Append(coll.ops, ops)]
          IN  /\ WithinBounds(c)
              /\ coll' = c
    /\ UNCHANGED <<pc, usage_outcome, index_usage_stats, indexes, detailed_indexes, result, beyondIndex>>

\* analyze_collection_indexes is called
Call ==
    /\ pc = "setup"
    /\ pc' = "start"
    /\ UNCHANGED <<coll, usage_outcome, index_usage_stats, indexes, detailed_indexes, result, beyondIndex>>

\* line 148
GetUsage ==
    /\ pc = "start"
    /\ \E outcome \in {"ok", "OperationFailure", "Exception"} :
          /\ outcome # "ok" => FailureExplored(coll)
          /\ usage_outcome' = outcome
          /\ index_usage_stats' = GetIndexUsageStats(outcome, UsageDocs(coll.indexes, coll.ops))
    /\ pc' = "get_indexes"
    /\ UNCHANGED <<coll, indexes, detailed_indexes, result, beyondIndex>>

\* line 151
GetIndexes ==
    /\ pc = "get_indexes"
    /\ indexes' = coll.indexes
    /\ pc' = "create"
    /\ UNCHANGED <<coll, usage_outcome, index_usage_stats, detailed_indexes, result, beyondIndex>>

\* lines 153-157
CreateAll ==
    /\ pc = "create"
    /\ detailed_indexes' =
         [p \in 1..Len(indexes) |->
             AnalyzeIndexProperties(CreateDetailedIndex(indexes[p], index_usage_stats))]
    /\ pc' = "sort"
    /\ UNCHANGED <<coll, usage_outcome, index_usage_stats, indexes, result, beyondIndex>>

\* line 160
Sort ==
    /\ pc = "sort"
    /\ detailed_indexes' = SortByEffectiveKey(detailed_indexes)
    /\ pc' = "duplicates"
    /\ UNCHANGED <<coll, usage_outcome, index_usage_stats, indexes, result, beyondIndex>>

\* line 163
CheckDuplicates ==
    /\ pc = "duplicates"
    /\ detailed_indexes' = CheckDuplicateIndexes(detailed_indexes)
    /\ pc' = "redundant"
    /\ UNCHANGED <<coll, usage_outcome, index_usage_stats, indexes, result, beyondIndex>>

\* line 164
CheckRedundant ==
    /\ pc = "redundant"
    /\ ~RedundantRaises(detailed_indexes)
    /\ detailed_indexes' = CheckRedundantIndexes(detailed_indexes)
    /\ pc' = "properties"
    /\ UNCHANGED <<coll, usage_outcome, index_usage_stats, indexes, result, beyondIndex>>

\* line 164 raising, caught by lines 172-174: return []
CheckRedundantFails ==
    /\ pc = "redundant"
    /\ RedundantRaises(detailed_indexes)
    /\ result' = <<>>
    /\ pc' = "failed"
    /\ UNCHANGED <<coll, usage_outcome, index_usage_stats, indexes, detailed_indexes, beyondIndex>>

\* lines 167-170
AnalyzeAndReturn ==
    /\ pc = "properties"
    /\ detailed_indexes' =
         [p \in 1..Len(detailed_indexes) |-> AnalyzeIndexProperties(detailed_indexes[p])]
    /\ result' = detailed_indexes'
    /\ pc' = "done"
    /\ UNCHANGED <<coll, usage_outcome, index_usage_stats, indexes, beyondIndex>>

Next ==
    \/ AddIndex
    \/ Call
    \/ GetUsage
    \/ GetIndexes
    \/ CreateAll
    \/ Sort
    \/ CheckDuplicates
    \/ CheckRedundant
    \/ CheckRedundantFails
    \/ AnalyzeAndReturn

Spec == Init /\ [][Next]_vars

-----------------------------------------------------------------------------
(* Part II: calculate_fragmentation, lines 640-679                         *)
(*                                                                         *)
(* A Python float that the code rounds to two decimals is modelled by the  *)
(* integer number of hundredths (5.0 is 500).  The quotients are taken     *)
(* exactly; round() rounds a tie to the even neighbour.  On the sizes      *)
(* explored the binary floating-point results equal the exact ones (the    *)
(* first storage size at which a tie is rounded differently is 160).       *)

MaxSize == 40
\* the sizes explored: small ones, and those of the documented examples
SizeValues == ((-2)..MaxSize) \cup {500, 600, 950, 1000}

\* floor(n / d) for d > 0
FloorDiv(n, d) == IF n >= 0 THEN n \div d ELSE -((-n + d - 1) \div d)

\* round(n / d * 100, 2) in hundredths, d > 0: round half to even
RoundHundredths(n, d) ==
    LET f == FloorDiv(n * 10000, d)
        r == n * 10000 - f * d
    IN  IF 2 * r < d THEN f
        ELSE IF 2 * r > d THEN f + 1
        ELSE IF f % 2 = 0 THEN f ELSE f + 1

\* lines 665-672: the comparisons are made on the value before it is rounded:
\* wasted / storage * 100 < t
PercentBelow(wasted, storage, t) == wasted * 100 < t * storage

\* FragmentationLevel with the thresholds compared by <=
FragmentationLevelInclusive(wasted, storage) ==
    IF wasted * 100 <= 10 * storage THEN "low"
    ELSE IF wasted * 100 <= 25 * storage THEN "medium"
    ELSE IF wasted * 100 <= 50 * storage THEN "high"
    ELSE "critical"

FragmentationLevel(wasted, storage) ==
    IF PercentBelow(wasted, storage, 10) THEN "low"
    ELSE IF PercentBelow(wasted, storage, 25) THEN "medium"
    ELSE IF PercentBelow(wasted, storage, 50) THEN "high"
    ELSE "critical"

CalculateFragmentation(storage, data) ==
    IF storage <= 0
    THEN [fragmentation_percentage |-> 0,
          storage_efficiency       |-> 10000,
          wasted_space_bytes       |-> 0,
          fragmentation_level      |-> "unknown"]
    ELSE IF storage < data
    THEN [fragmentation_percentage |-> 0,
          storage_efficiency       |-> RoundHundredths(data, storage),
          wasted_space_bytes       |-> 0,
          fragmentation_level      |-> "compressed"]
    ELSE LET wasted_space == storage - data
         IN  [fragmentation_percentage |-> RoundHundredths(wasted_space, storage),
              storage_efficiency       |-> RoundHundredths(data, storage),
              wasted_space_bytes       |-> wasted_space,
              fragmentation_level      |-> FragmentationLevel(wasted_space, storage)]

FragInit ==
    /\ storage_size \in SizeValues
    /\ data_size \in SizeValues
    /\ frag_metrics = <<>>
    /\ IndexIdle
    /\ StructIdle
    /\ DbIdle
    /\ HealthIdle
    /\ CollectIdle
    /\ EnhanceIdle

\* calculate_fragmentation(storage_size, data_size) is called and returns
CallCalculateFragmentation ==
    /\ frag_metrics = <<>>
    /\ frag_metrics' = CalculateFragmentation(storage_size, data_size)
    /\ UNCHANGED <<storage_size, data_size, beyondFrag>>

FragNext == CallCalculateFragmentation

SpecFrag == FragInit /\ [][FragNext]_vars

-----------------------------------------------------------------------------
(* Part III: analyze_collection_structure, lines 349-634 and 681-724       *)
(*                                                                         *)
(* A BSON value is a node [t, keys, vals]: t is the name of its Python     *)
(* type; a dict has its keys and values in insertion order, a list has     *)
(* its elements in vals, a scalar has neither.                             *)

IntVal == [t |-> "int", keys |-> <<>>, vals |-> <<>>]
StrVal == [t |-> "str", keys |-> <<>>, vals |-> <<>>]
DictVal(ks, vs) == [t |-> "dict", keys |-> ks, vals |-> vs]
ListVal(vs) == [t |-> "list", keys |-> <<>>, vals |-> vs]
IsDict(v) == v.t = "dict"
IsList(v) == v.t = "list"

MaxOf(S) == CHOOSE m \in S : \A n \in S : n <= m
MinOf(S) == CHOOSE m \in S : \A n \in S : m <= n
RECURSIVE SumSeq(_)
SumSeq(ns) == IF ns = <<>> THEN 0 ELSE Head(ns) + SumSeq(Tail(ns))
RECURSIVE Flatten(_)
Flatten(seqs) == IF seqs = <<>> THEN <<>> ELSE Head(seqs) \o Flatten(Tail(seqs))

\* lines 472-486
RECURSIVE CalculateNestingDepth(_, _)
CalculateNestingDepth(obj, current_depth) ==
    IF ~IsDict(obj) THEN current_depth
    ELSE IF obj.vals = <<>> THEN current_depth
    ELSE MaxOf({current_depth} \cup
               {CalculateNestingDepth(obj.vals[k], current_depth + 1) :
                   k \in {k \in 1..Len(obj.vals) :
                            IsDict(obj.vals[k]) \/ IsList(obj.vals[k])}})

\* lines 488-501 (the path argument is not used for the result)
RECURSIVE FindLargeArrays(_)
FindLargeArrays(obj) ==
    IF IsList(obj)
    THEN <<Len(obj.vals)>>
            \o Flatten([k \in 1..Len(obj.vals) |-> FindLargeArrays(obj.vals[k])])
    ELSE IF IsDict(obj)
    THEN Flatten([k \in 1..Len(obj.vals) |-> FindLargeArrays(obj.vals[k])])
    ELSE <<>>

\* A field path of _extract_fields is the sequence of its "."-separated
\* segments; arr marks a segment that ends in "[]".
Segment(key, arr) == [k |-> key, arr |-> arr]
MarkArray(path) == [path EXCEPT ![Len(path)].arr = TRUE]

\* the str the code builds for the path
RECURSIVE PathString(_)
PathString(path) ==
    IF path = <<>> THEN ""
    ELSE LET seg == path[Len(path)]
             own == IF seg.arr THEN seg.k \o "[]" ELSE seg.k
         IN  IF Len(path) = 1 THEN own
             ELSE PathString(SubSeq(path, 1, Len(path) - 1)) \o "." \o own

\* lines 503-521
RECURSIVE ExtractFields(_, _)
ExtractFields(obj, path) ==
    IF ~IsDict(obj) THEN <<>>
    ELSE Flatten([k \in 1..Len(obj.keys) |->
            LET field_path == Append(path, Segment(obj.keys[k], FALSE))
                value == obj.vals[k]
            IN  <<field_path>> \o
                (IF IsDict(value) THEN ExtractFields(value, field_path)
                 ELSE IF IsList(value) /\ value.vals # <<>>
                         /\ (IsDict(value.vals[1]) \/ IsList(value.vals[1]))
                      THEN ExtractFields(value.vals[1], MarkArray(field_path))
                      ELSE <<>>)])

\* lines 568-590
ExtractDistinctArrayFields(array) ==
    IF array = <<>> \/ ~IsDict(array[1]) THEN 0
    ELSE Cardinality(UNION {{array[i].keys[j] : j \in 1..Len(array[i].keys)} :
                               i \in {i \in 1..Len(array) : IsDict(array[i])}})

\* lines 523-566
RECURSIVE ExtractFieldsAlternative(_)
ExtractFieldsAlternative(obj) ==
    IF ~IsDict(obj)
    THEN [top_level |-> 0, distinct_fields |-> 0, array_fields |-> 0, nested_fields |-> 0]
    ELSE LET n == Len(obj.vals)
             nested == [k \in 1..n |->
                          IF IsDict(obj.vals[k])
                          THEN ExtractFieldsAlternative(obj.vals[k])
                          ELSE [top_level |-> 0, distinct_fields |-> 0,
                                array_fields |-> 0, nested_fields |-> 0]]
         IN  [top_level |-> n,
              distinct_fields |->
                  n + SumSeq([k \in 1..n |->
                        IF IsDict(obj.vals[k]) THEN nested[k].distinct_fields
                        ELSE IF IsList(obj.vals[k])
                                /\ obj.vals[k].vals # <<>>
                                /\ IsDict(obj.vals[k].vals[1])
                             THEN ExtractDistinctArrayFields(obj.vals[k].vals)
                             ELSE 0]),
              array_fields |->
                  SumSeq([k \in 1..n |->
                        IF ~IsDict(obj.vals[k]) /\ IsList(obj.vals[k]) THEN 1 ELSE 0]),
              nested_fields |->
                  SumSeq([k \in 1..n |->
                        IF IsDict(obj.vals[k])
                        THEN 1 + nested[k].nested_fields ELSE 0])]

\* lines 613-634: the paths are the strs the code builds
RECURSIVE ExtractQueryablePaths(_, _)
ExtractQueryablePaths(obj, path) ==
    IF ~IsDict(obj) THEN <<>>
    ELSE Flatten([k \in 1..Len(obj.keys) |->
            LET field_path == IF path # "" THEN path \o "." \o obj.keys[k]
                              ELSE obj.keys[k]
                value == obj.vals[k]
            IN  <<field_path>> \o
                (IF IsDict(value) THEN ExtractQueryablePaths(value, field_path)
                 ELSE IF IsList(value) /\ value.vals # <<>>
                      THEN Flatten([i \in 1..Len(value.vals) |->
                              LET item == value.vals[i]
                                  indexed == field_path \o "[" \o ToString(i - 1) \o "]"
                              IN  IF IsDict(item) \/ IsList(item)
                                  THEN ExtractQueryablePaths(item, indexed)
                                  ELSE <<indexed>>])
                      ELSE <<>>)])

\* lines 592-611; NoValue is Python's None
NoValue == [t |-> "NoneType", keys |-> <<>>, vals |-> <<>>]
HasKey(obj, key) == \E k \in 1..Len(obj.keys) : obj.keys[k] = key
Lookup(obj, key) == obj.vals[CHOOSE k \in 1..Len(obj.keys) : obj.keys[k] = key]
RECURSIVE GetNestedValue(_, _)
GetNestedValue(current, path) ==
    IF path = <<>> THEN current
    ELSE LET seg == Head(path)
         IN  IF seg.arr
             THEN IF IsDict(current) /\ HasKey(current, seg.k)
                  THEN LET v == Lookup(current, seg.k)
                       IN  GetNestedValue(
                              IF IsList(v) /\ v.vals # <<>> THEN v.vals[1] ELSE v,
                              Tail(path))
                  ELSE NoValue
             ELSE IF IsDict(current) /\ HasKey(current, seg.k)
                  THEN GetNestedValue(Lookup(current, seg.k), Tail(path))
                  ELSE NoValue

\* a float that is a quotient of two ints, kept exact
Ratio(n, d) == [num |-> n, den |-> d]
Average(ns) == IF ns # <<>> THEN Ratio(SumSeq(ns), Len(ns)) ELSE Ratio(0, 1)
RatioAbove(r, n) == r.num > n * r.den

\* lines 59-89: a new CollectionStructureAnalysis; percentages in hundredths
NewAnalysis ==
    [max_nesting_depth |-> 0,
     avg_nesting_depth |-> Ratio(0, 1),
     has_deep_nesting |-> FALSE,
     deep_nesting_samples |-> <<>>,
     has_large_arrays |-> FALSE,
     max_array_size |-> 0,
     avg_array_size |-> Ratio(0, 1),
     large_array_samples |-> <<>>,
     total_fields |-> 0,
     total_queryable_paths |-> Ratio(0, 1),
     common_fields |-> <<>>,
     field_types |-> <<>>,
     fragmentation_percentage |-> 0,
     storage_efficiency |-> 0,
     wasted_space_bytes |-> 0,
     fragmentation_level |-> "low",
     recommendations |-> <<>>,
     issues |-> <<>>]

\* lines 379-384: the locals of the loop; a dict is the sequence of its
\* entries in insertion order
NewAcc ==
    [nesting_depths |-> <<>>,
     array_sizes |-> <<>>,
     field_counts |-> <<>>,
     queryable_path_counts |-> <<>>,
     all_fields |-> <<>>,
     field_types |-> <<>>]

DictHas(d, key) == \E k \in 1..Len(d) : d[k].key = key
DictIndex(d, key) == CHOOSE k \in 1..Len(d) : d[k].key = key

\* CountField recording the type at every encounter of the field
CountFieldOverwriting(a, doc, field) ==
    LET name == PathString(field)
        counted == IF DictHas(a.all_fields, name)
                   THEN [a.all_fields EXCEPT ![DictIndex(a.all_fields, name)].value = @ + 1]
                   ELSE Append(a.all_fields, [key |-> name, value |-> 1])
        typed == IF DictHas(a.field_types, name)
                 THEN [a.field_types EXCEPT ![DictIndex(a.field_types, name)].value =
                                                GetNestedValue(doc, field).t]
                 ELSE Append(a.field_types,
                             [key |-> name, value |-> GetNestedValue(doc, field).t])
    IN  [a EXCEPT !.all_fields = counted, !.field_types = typed]

\* lines 419-427: one field of one document
CountField(a, doc, field) ==
    LET name == PathString(field)
        counted == IF DictHas(a.all_fields, name)
                   THEN [a.all_fields EXCEPT ![DictIndex(a.all_fields, name)].value = @ + 1]
                   ELSE Append(a.all_fields, [key |-> name, value |-> 1])
        typed == IF DictHas(a.field_types, name) THEN a.field_types
                 ELSE Append(a.field_types,
                             [key |-> name, value |-> GetNestedValue(doc, field).t])
    IN  [a EXCEPT !.all_fields = counted, !.field_types = typed]

RECURSIVE CountFields(_, _, _)
CountFields(a, doc, fields) ==
    IF fields = <<>> THEN a
    ELSE CountFields(CountField(a, doc, Head(fields)), doc, Tail(fields))

\* lines 388-396
NestingStep(an, doc) ==
    LET depth == CalculateNestingDepth(doc, 0)
    IN  IF depth > an.max_nesting_depth
        THEN [an EXCEPT
                !.max_nesting_depth = depth,
                !.has_deep_nesting = IF depth > 5 THEN TRUE ELSE @,
                !.deep_nesting_samples =
                    IF depth > 5 /\ Len(@) < 3 THEN Append(@, doc) ELSE @]
        ELSE an

\* lines 399-407
ArrayStep(an, doc) ==
    LET doc_array_sizes == FindLargeArrays(doc)
        largest == MaxOf({doc_array_sizes[k] : k \in 1..Len(doc_array_sizes)})
    IN  IF doc_array_sizes # <<>> /\ largest > an.max_array_size
        THEN [an EXCEPT
                !.max_array_size = largest,
                !.has_large_arrays = IF largest > 1000 THEN TRUE ELSE @,
                !.large_array_samples =
                    IF largest > 1000 /\ Len(@) < 3 THEN Append(@, doc) ELSE @]
        ELSE an

\* lines 388-427: the locals after one more document
AccStep(a, doc) ==
    CountFields(
        [a EXCEPT
            !.nesting_depths = Append(@, CalculateNestingDepth(doc, 0)),
            !.array_sizes = @ \o FindLargeArrays(doc),
            !.field_counts = Append(@, ExtractFieldsAlternative(doc).distinct_fields),
            !.queryable_path_counts = Append(@, Len(ExtractQueryablePaths(doc, "")))],
        doc, ExtractFields(doc, <<>>))

\* line 447: sorted(..., key=count, reverse=True)[:10]; the sort is stable
RECURSIVE InsertByCount(_, _)
InsertByCount(sorted, x) ==
    IF sorted = <<>> THEN <<x>>
    ELSE IF x.value > Head(sorted).value THEN <<x>> \o sorted
    ELSE <<Head(sorted)>> \o InsertByCount(Tail(sorted), x)
RECURSIVE SortByCount(_)
SortByCount(d) ==
    IF d = <<>> THEN <<>>
    ELSE InsertByCount(SortByCount(SubSeq(d, 1, Len(d) - 1)), d[Len(d)])
CommonFields(all_fields) ==
    LET sorted == SortByCount(all_fields)
    IN  SubSeq(sorted, 1, IF Len(sorted) < 10 THEN Len(sorted) ELSE 10)

\* str() of a float >= 0 that has at most two decimals, given in hundredths
FloatText(h) ==
    ToString(h \div 100) \o "." \o
       (IF h % 10 = 0 THEN ToString((h % 100) \div 10)
        ELSE ToString((h % 100) \div 10) \o ToString(h % 10))

\* lines 681-724
GenerateStructureRecommendations(an) ==
    LET pct == an.fragmentation_percentage
        level == an.fragmentation_level
    IN  [an EXCEPT
          !.issues =
              When(an.has_deep_nesting,
                   "Deep nesting detected (max depth: "
                      \o ToString(an.max_nesting_depth) \o ")")
              \o When(an.has_large_arrays,
                   "Large arrays detected (max size: "
                      \o ToString(an.max_array_size) \o ")")
              \o When(an.total_fields > 50,
                   "High field count (" \o ToString(an.total_fields) \o ")")
              \o When(pct > 0 /\ level = "critical",
                   "Critical fragmentation detected ("
                      \o FloatText(pct) \o "% wasted space)")
              \o When(pct > 0 /\ level # "critical" /\ level = "high",
                   "High fragmentation detected ("
                      \o FloatText(pct) \o "% wasted space)"),
          !.recommendations =
              (IF an.has_deep_nesting
               THEN <<"Consider denormalizing deeply nested documents for better query performance",
                      "Use aggregation pipelines to flatten nested data when needed">>
               ELSE <<>>)
              \o (IF an.has_large_arrays
                  THEN <<"Consider splitting large arrays into separate collections",
                         "Use pagination when working with large arrays">>
                  ELSE <<>>)
              \o When(an.total_fields > 50, "Consider document schema optimization")
              \o (IF RatioAbove(an.avg_array_size, 100)
                  THEN <<"Monitor array growth patterns",
                         "Consider using capped arrays or separate collections">>
                  ELSE <<>>)
              \o (IF pct > 0 /\ level = "critical"
                  THEN <<"Consider compacting the collection to reclaim space",
                         "Review data deletion patterns and consider archiving old data">>
                  ELSE IF pct > 0 /\ level = "high"
                  THEN <<"Monitor fragmentation trends and consider compaction if it worsens",
                         "Review update patterns that may cause document growth">>
                  ELSE IF pct > 0 /\ level = "medium"
                  THEN <<"Fragmentation is moderate - monitor for trends">>
                  ELSE <<>>)]

\* lines 430-464: what follows the loop
FinishAnalysis(an, a, cache) ==
    LET counted ==
          [an EXCEPT
              !.avg_nesting_depth = Average(a.nesting_depths),
              !.avg_array_size = Average(a.array_sizes),
              !.total_fields = Len(a.all_fields),
              !.total_queryable_paths = Average(a.queryable_path_counts),
              !.common_fields = CommonFields(a.all_fields),
              !.field_types = a.field_types]
        extra ==
          [avg_fields_per_doc |-> Average(a.field_counts),
           max_fields_per_doc |->
              IF a.field_counts # <<>>
              THEN MaxOf({a.field_counts[k] : k \in 1..Len(a.field_counts)}) ELSE 0,
           min_fields_per_doc |->
              IF a.field_counts # <<>>
              THEN MinOf({a.field_counts[k] : k \in 1..Len(a.field_counts)}) ELSE 0]
        measured ==
          IF cache # <<>>
          THEN LET m == CalculateFragmentation(cache.storageSize, cache.size)
               IN  [counted EXCEPT
                      !.fragmentation_percentage = m.fragmentation_percentage,
                      !.storage_efficiency = m.storage_efficiency,
                      !.wasted_space_bytes = m.wasted_space_bytes,
                      !.fragmentation_level = m.fragmentation_level]
          ELSE counted
    IN  GenerateStructureRecommendations(measured) @@ extra

-----------------------------------------------------------------------------
(* The calls of analyze_collection_structure explored                      *)

MaxSample == 2   \* documents the sampling aggregation returns
MaxWraps == 7    \* times a document is nested into a new document

\* {a: 1}
DocFlat == DictVal(<<"a">>, <<IntVal>>)
\* {a: {b: 1}, c: [{x: 1}, {y: 2}]}
DocMixed ==
    DictVal(<<"a", "c">>,
            <<DictVal(<<"b">>, <<IntVal>>),
              ListVal(<<DictVal(<<"x">>, <<IntVal>>), DictVal(<<"y">>, <<IntVal>>)>>)>>)
\* {a: [1]}
DocScalarArray == DictVal(<<"a">>, <<ListVal(<<IntVal>>)>>)
\* {a: [{b: {c: 1}}]}
DocNestedInArray ==
    DictVal(<<"a">>,
            <<ListVal(<<DictVal(<<"b">>, <<DictVal(<<"c">>, <<IntVal>>)>>)>>)>>)
\* {c: [1, {x: 1}]}
DocScalarFirst == DictVal(<<"c">>, <<ListVal(<<IntVal, DictVal(<<"x">>, <<IntVal>>)>>)>>)
\* {c: [[1], {x: 1}]}
DocListFirst ==
    DictVal(<<"c">>, <<ListVal(<<ListVal(<<IntVal>>), DictVal(<<"x">>, <<IntVal>>)>>)>>)
\* {a: "s", c: [{x: 1}, {x: 2, y: 1}]}
DocRepeated ==
    DictVal(<<"a", "c">>,
            <<StrVal,
              ListVal(<<DictVal(<<"x">>, <<IntVal>>),
                        DictVal(<<"x", "y">>, <<IntVal, IntVal>>)>>)>>)
\* {}
DocEmpty == DictVal(<<>>, <<>>)
\* {a: {b: "s"}, c: []}
DocEmptyArray == DictVal(<<"a", "c">>, <<DictVal(<<"b">>, <<StrVal>>), ListVal(<<>>)>>)

BaseDocs ==
    {DocFlat, DocMixed, DocScalarArray, DocNestedInArray, DocScalarFirst,
     DocListFirst, DocRepeated, DocEmpty, DocEmptyArray}

\* {w: doc} and {w: [doc]}
Wrap(kind, doc) ==
    IF kind = "dict" THEN DictVal(<<"w">>, <<doc>>)
    ELSE DictVal(<<"w">>, <<ListVal(<<doc>>)>>)

\* what _enhance_collection_analysis may have cached for the namespace
CacheEntries ==
    {<<>>,
     [storageSize |-> 0, size |-> 0],
     [storageSize |-> 3, size |-> 2],
     [storageSize |-> 1000, size |-> 600]}

StructInit ==
    /\ sample = <<>>
    /\ wraps = <<>>
    /\ cached = <<>>
    /\ spc = "setup"
    /\ todo = <<>>
    /\ acc = <<>>
    /\ analysis = <<>>
    /\ IndexIdle
    /\ FragIdle
    /\ DbIdle
    /\ HealthIdle
    /\ CollectIdle
    /\ EnhanceIdle

\* the environment: a document is inserted, before or after the others
AddDocument ==
    /\ spc = "setup"
    /\ Len(sample) < MaxSample
    /\ \E doc \in BaseDocs : \E front \in BOOLEAN :
          sample' = IF front THEN <<doc>> \o sample ELSE Append(sample, doc)
    /\ UNCHANGED <<wraps, cached, spc, todo, acc, analysis, beyondStruct>>

\* the environment: the only document is nested one level deeper
WrapDocument ==
    /\ spc = "setup"
    /\ Len(sample) = 1
    /\ Len(wraps) < MaxWraps
    /\ \E kind \in {"dict", "list"} :
          /\ kind = "list" => \A k \in 1..Len(wraps) : wraps[k] # "list"
          /\ sample' = <<Wrap(kind, sample[1])>>
          /\ wraps' = Append(wraps, kind)
    /\ UNCHANGED <<cached, spc, todo, acc, analysis, beyondStruct>>

\* lines 349-366: the call; the cache holds what an earlier step left
StructCall ==
    /\ spc = "setup"
    /\ \E entry \in CacheEntries :
          /\ entry # <<>> => Len(sample) = 1 /\ wraps = <<>>
          /\ cached' = entry
    /\ analysis' = NewAnalysis
    /\ spc' = "sampling"
    /\ UNCHANGED <<sample, wraps, todo, acc, beyondStruct>>

\* lines 370-384 and 468-470: the aggregation returns the sample or raises
SampleDocuments ==
    /\ spc = "sampling"
    /\ \E outcome \in {"ok", "raises"} :
          IF outcome = "ok" /\ sample # <<>>
          THEN /\ todo' = sample
               /\ acc' = NewAcc
               /\ spc' = "loop"
          ELSE /\ spc' = "done"
               /\ UNCHANGED <<todo, acc>>
    /\ UNCHANGED <<sample, wraps, cached, analysis, beyondStruct>>

\* lines 386-427: one iteration of the loop
ProcessDocument ==
    /\ spc = "loop"
    /\ todo # <<>>
    /\ analysis' = ArrayStep(NestingStep(analysis, Head(todo)), Head(todo))
    /\ acc' = AccStep(acc, Head(todo))
    /\ todo' = Tail(todo)
    /\ UNCHANGED <<sample, wraps, cached, spc, beyondStruct>>

\* lines 429-466: the statistics, the recommendations and the return
FinishStructure ==
    /\ spc = "loop"
    /\ todo = <<>>
    /\ analysis' = FinishAnalysis(analysis, acc, cached)
    /\ spc' = "done"
    /\ UNCHANGED <<sample, wraps, cached, todo, acc, beyondStruct>>

StructNext ==
    \/ AddDocument
    \/ WrapDocument
    \/ StructCall
    \/ SampleDocuments
    \/ ProcessDocument
    \/ FinishStructure

SpecStruct == StructInit /\ [][StructNext]_vars


-----------------------------------------------------------------------------
(* Part IV: the DatabaseStats of one database,                             *)
(* src/src/cluster_stats.py, lines 343-367                                 *)

MaxCount == 2   \* largest number dbStats reports

\* the dbStats entries read; a failed dbStats call gives {} (the empty dict)
DbStatsKeys == {"objects", "collections", "dataSize", "indexSize"}
RawDbStats == UNION {[S -> 0..MaxCount] : S \in SUBSET DbStatsKeys}

\* lines 347-353 with one of the three tests left out
DatabaseStatsIgnoringCollections(db_name, raw) ==
    LET objects_count == Get(raw, "objects", 0)
        data_size_read == Get(raw, "dataSize", 0)
    IN  [name |-> db_name,
         size_on_disk |-> Get(raw, "dataSize", 0) + Get(raw, "indexSize", 0),
         empty |-> (objects_count = 0 /\ data_size_read = 0),
         data_size |-> data_size_read,
         storage_size |-> Get(raw, "storageSize", 0),
         index_size |-> Get(raw, "indexSize", 0),
         objects |-> objects_count,
         indexes |-> Get(raw, "indexes", 0),
         avg_obj_size |-> Get(raw, "avgObjSize", 0)]

\* lines 347-367
DatabaseStatsOf(db_name, raw) ==
    LET objects_count == Get(raw, "objects", 0)
        collections_count == Get(raw, "collections", 0)
        data_size_read == Get(raw, "dataSize", 0)
        is_empty == (objects_count = 0 /\ collections_count = 0 /\ data_size_read = 0)
    IN  [name |-> db_name,
         size_on_disk |-> Get(raw, "dataSize", 0) + Get(raw, "indexSize", 0),
         empty |-> is_empty,
         data_size |-> data_size_read,
         storage_size |-> Get(raw, "storageSize", 0),
         index_size |-> Get(raw, "indexSize", 0),
         objects |-> objects_count,
         indexes |-> Get(raw, "indexes", 0),
         avg_obj_size |-> Get(raw, "avgObjSize", 0)]

DbInit ==
    /\ db_stats_raw \in RawDbStats
    /\ db_stats = <<>>
    /\ IndexIdle
    /\ FragIdle
    /\ StructIdle
    /\ HealthIdle
    /\ CollectIdle
    /\ EnhanceIdle

\* lines 345-367: the DatabaseStats is built from what the client returned
BuildDatabaseStats ==
    /\ db_stats = <<>>
    /\ db_stats' = DatabaseStatsOf("db", db_stats_raw)
    /\ UNCHANGED <<db_stats_raw, beyondDb>>

DbNext == BuildDatabaseStats

SpecDb == DbInit /\ [][DbNext]_vars


-----------------------------------------------------------------------------
(* Part V: analyze_cluster_health,                                         *)
(* src/src/enhanced_analysis.py, lines 764-870                             *)

MaxCollections == 2   \* collections handed to analyze_cluster_health

\* a number, or a nested dict of numbers (as in opcountersRepl)
Num(n) == [kind |-> "num", n |-> n, nested |-> <<>>]
Nested(ns) == [kind |-> "dict", n |-> 0, nested |-> ns]

\* the 'mem', 'connections' and 'opcounters' entries of serverStatus; an
\* absent entry reads as {} (lines 779, 788, 820); 'connections' may also hold
\* a value that is no dict, for which NoValue stands
MemDocs ==
    {<<>>} \cup [{"resident", "virtual"} -> {0, 3, 4}]
ConnectionDocs ==
    {NoValue} \cup [current : {0, 3, 4}, available : {0, 1}]
OpcounterValues == {Num(1), Num(9), Nested(<<1, 1>>)}
OpcounterDocs ==
    UNION {[S -> OpcounterValues] : S \in SUBSET {"insert", "delete"}}

\* the command raises, or returns a document
ServerStatuses ==
    {[raises |-> TRUE, error |-> "connection refused", mem |-> <<>>,
      connections |-> NoValue, opcounters |-> <<>>]}
    \cup [raises : {FALSE}, error : {""}, mem : MemDocs,
          connections : ConnectionDocs, opcounters : OpcounterDocs]

\* the attributes of a CollectionStats that are read; structure_analysis is
\* None (NoValue) or a CollectionStructureAnalysis
StructureAnalyses ==
    {NoValue,
     [max_nesting_depth |-> 6, max_array_size |-> 1001],
     [max_nesting_depth |-> 7, max_array_size |-> 1000]}
CollectionsOf(n) ==
    [1..n -> [structure_analysis : StructureAnalyses, nindexes : {10, 11}]]
\* collections_data with the namespaces db.c1, db.c2, ...; None and [] are
\* both <<>>: line 799 only tests the truth of the argument
CollectionsData ==
    UNION {{[k \in 1..n |-> [namespace |-> "db.c" \o ToString(k),
                              structure_analysis |-> cs[k].structure_analysis,
                              nindexes |-> cs[k].nindexes]] : cs \in CollectionsOf(n)}
           : n \in 0..MaxCollections}

\* f"{x*100:.1f}" of the float num/den; no explored quotient is a rounding tie
PercentText(num, den) ==
    LET tenths == (2000 * num + den) \div (2 * den)
    IN  ToString(tenths \div 10) \o "." \o ToString(tenths % 10)

\* lines 766-772
NewHealthReport ==
    [overall_health |-> "healthy", issues |-> <<>>, recommendations |-> <<>>,
     metrics |-> <<>>]

Flag(report, issue, recommendation) ==
    [report EXCEPT !.issues = Append(@, issue),
                   !.recommendations = Append(@, recommendation)]

\* lines 778-785
CheckMemory(report, mem) ==
    LET resident == Get(mem, "resident", 0)
        virtual == Get(mem, "virtual", 0)
    IN  IF virtual > 0 /\ resident > 0 /\ RatioAbove(Ratio(resident * 100, virtual), 75)
        THEN Flag(report,
                  "High memory usage detected (" \o PercentText(resident, virtual) \o "%)",
                  "Consider increasing memory or optimizing queries")
        ELSE report

\* lines 788-796
CheckConnections(report, connections) ==
    LET current == connections.current
        available == connections.available
    IN  IF current + available > 0
           /\ RatioAbove(Ratio(current * 100, current + available), 75)
        THEN Flag(report,
                  "High connection usage detected ("
                     \o PercentText(current, current + available) \o "%)",
                  "Consider connection pooling optimization")
        ELSE report

\* lines 801-817: the checks of one collection
CheckCollection(report, c) ==
    LET r1 == IF c.structure_analysis # NoValue
                 /\ c.structure_analysis.max_nesting_depth > 6
              THEN Flag(report,
                        "Deep nesting detected in " \o c.namespace \o " (depth: "
                           \o ToString(c.structure_analysis.max_nesting_depth) \o ")",
                        "Consider denormalizing collection " \o c.namespace)
              ELSE report
        r2 == IF c.structure_analysis # NoValue
                 /\ c.structure_analysis.max_array_size > 1000
              THEN Flag(r1,
                        "Large array detected in " \o c.namespace \o " ("
                           \o ToString(c.structure_analysis.max_array_size) \o " items)",
                        "Consider splitting large arrays in collection " \o c.namespace)
              ELSE r1
    IN  IF c.nindexes > 10
        THEN Flag(r2,
                  "Too many indexes in " \o c.namespace \o " ("
                     \o ToString(c.nindexes) \o " indexes)",
                  "Review and remove unused/redundant indexes in " \o c.namespace)
        ELSE r2

\* lines 799-817
RECURSIVE CheckCollections(_, _)
CheckCollections(report, collections) ==
    IF collections = <<>> THEN report
    ELSE CheckCollections(CheckCollection(report, Head(collections)), Tail(collections))

\* lines 828-833 and 843-847: a number counts as itself, a dict as its sum
OpValue(v) == IF v.kind = "num" THEN v.n ELSE SumSeq(v.nested)

\* lines 824-833
RECURSIVE TotalOps(_, _)
TotalOps(opcounters, keys) ==
    IF keys = {} THEN 0
    ELSE LET k == CHOOSE x \in keys : TRUE
         IN  OpValue(opcounters[k]) + TotalOps(opcounters, keys \ {k})

\* lines 838-852
CheckDeletes(report, opcounters) ==
    LET total_ops == TotalOps(opcounters, DOMAIN opcounters)
        delete_ops == IF "delete" \in DOMAIN opcounters
                      THEN OpValue(opcounters["delete"]) ELSE 0
    IN  IF total_ops > 0 /\ RatioAbove(Ratio(delete_ops * 10, total_ops), 1)
        THEN Flag(report, "High delete operation ratio detected",
                  "Review data lifecycle management")
        ELSE report

\* lines 855-856 with the boundary one issue later
OverallHealthLate(issues) ==
    IF issues = <<>> THEN "healthy"
    ELSE IF Len(issues) <= 3 THEN "warning" ELSE "critical"

\* lines 855-856
OverallHealth(issues) ==
    IF issues = <<>> THEN "healthy"
    ELSE IF Len(issues) < 3 THEN "warning" ELSE "critical"

\* lines 866-870: the except branch
HealthCheckFailed(report, e) ==
    [report EXCEPT !.overall_health = "error",
                   !.issues = Append(@, "Health check failed: " \o e)]

\* lines 764-870
AnalyzeClusterHealth(status, collections) ==
    IF status.raises
    THEN HealthCheckFailed(NewHealthReport, status.error)
    ELSE LET r1 == CheckMemory(NewHealthReport, status.mem)
         IN  IF status.connections = NoValue
             THEN HealthCheckFailed(r1, "'NoneType' object has no attribute 'get'")
             ELSE LET r2 == CheckConnections(r1, status.connections)
                      r3 == CheckCollections(r2, collections)
                      r4 == CheckDeletes(r3, status.opcounters)
                  IN  [r4 EXCEPT
                         !.overall_health = OverallHealth(r4.issues),
                         !.metrics =
                            [memory_usage_mb |-> Get(status.mem, "resident", 0),
                             current_connections |-> status.connections.current,
                             total_operations |->
                                TotalOps(status.opcounters, DOMAIN status.opcounters)]]

HealthInit ==
    /\ server_status \in ServerStatuses
    /\ collections_data \in CollectionsData
    /\ health_report = <<>>
    /\ IndexIdle
    /\ FragIdle
    /\ StructIdle
    /\ DbIdle
    /\ CollectIdle
    /\ EnhanceIdle

CallAnalyzeClusterHealth ==
    /\ health_report = <<>>
    /\ health_report' = AnalyzeClusterHealth(server_status, collections_data)
    /\ UNCHANGED <<server_status, collections_data, beyondHealth>>

HealthNext == CallAnalyzeClusterHealth

SpecHealth == HealthInit /\ [][HealthNext]_vars

-----------------------------------------------------------------------------
(* Part VI: collect_all_stats and its two thread pools,                    *)
(* src/src/cluster_stats.py, lines 161-199 and 303-509                     *)

DbWorkers == 5          \* ThreadPoolExecutor(max_workers=5), line 322
CollWorkers == 10       \* ThreadPoolExecutor(max_workers=10), line 375
ManyDatabases == 6      \* databases of the wide cluster
ManyCollections == 11   \* collections of the deep cluster's database

\* the public methods of MongoDBClient, src/src/mongodb_client.py
ClientMethods ==
    {"connect", "disconnect", "get_server_info", "get_cluster_type",
     "get_databases", "get_database_stats", "get_collections",
     "get_collection_stats", "get_indexes", "get_index_stats",
     "get_sample_documents", "get_replica_set_status", "get_sharding_status",
     "get_shards", "is_connected"}

\* names are sequences of characters
SystemPrefix == <<"s", "y", "s", "t", "e", "m", ".">>
AdminName == <<"a", "d", "m", "i", "n">>
LocalName == <<"l", "o", "c", "a", "l">>
ConfigName == <<"c", "o", "n", "f", "i", "g">>
AppName == <<"a", "p", "p">>
LogsName == <<"l", "o", "g", "s">>
UsersName == <<"u", "s", "e", "r", "s">>
OrdersName == <<"o", "r", "d", "e", "r", "s">>
ActiveViewName == <<"v", "_", "a", "c", "t", "i", "v", "e">>
SystemViewsName == SystemPrefix \o <<"v", "i", "e", "w", "s">>
NumberedName(letters, k) == letters \o NatChars(k)

\* f"{db_name}.{collection_name}", line 414
Namespace(db_name, collection_name) == db_name \o <<".">> \o collection_name

\* a collection or view of the cluster: what collStats reports for it and what
\* the structure analysis would find in it
ClusterCollection(coll_name, coll_kind, n_indexes, depth) ==
    [name |-> coll_name, kind |-> coll_kind,
     coll_stats |-> [count |-> 3, size |-> 30, storageSize |-> 40, nindexes |-> n_indexes],
     structure |-> [max_nesting_depth |-> depth, max_array_size |-> 0]]

ClusterDatabase(db_name, raw, colls) ==
    [name |-> db_name, db_stats |-> raw, collections |-> colls]

HealthyStatus ==
    [raises |-> FALSE, error |-> "", mem |-> [resident |-> 3, virtual |-> 4],
     connections |-> [current |-> 3, available |-> 1], opcounters |-> <<>>]
UnreachableStatus ==
    [raises |-> TRUE, error |-> "connection refused", mem |-> <<>>,
     connections |-> NoValue, opcounters |-> <<>>]

\* two user databases and a system database; the first holds two collections,
\* a view and a system collection
MixedCluster ==
    [dbs |-> <<ClusterDatabase(AppName,
                  [objects |-> 2, collections |-> 2, dataSize |-> 2, indexSize |-> 1],
                  <<ClusterCollection(UsersName, "collection", 11, 7),
                    ClusterCollection(ActiveViewName, "view", 0, 0),
                    ClusterCollection(SystemViewsName, "collection", 1, 1),
                    ClusterCollection(OrdersName, "collection", 1, 1)>>),
               ClusterDatabase(AdminName,
                  [objects |-> 1, collections |-> 1, dataSize |-> 1, indexSize |-> 1],
                  <<ClusterCollection(SystemPrefix \o UsersName, "collection", 1, 1)>>),
               ClusterDatabase(LogsName,
                  [objects |-> 0, collections |-> 0, dataSize |-> 0, indexSize |-> 0],
                  <<>>)>>,
     flaky |-> TRUE]

\* ManyDatabases user databases without collections
WideCluster ==
    [dbs |-> [i \in 1..ManyDatabases |->
                ClusterDatabase(NumberedName(<<"d", "b">>, i),
                   [objects |-> 0, collections |-> 0, dataSize |-> 0, indexSize |-> 0],
                   <<>>)],
     flaky |-> FALSE]

\* one user database that holds ManyCollections collections
DeepCluster ==
    [dbs |-> <<ClusterDatabase(AppName,
                  [objects |-> 1, collections |-> 1, dataSize |-> 1, indexSize |-> 1],
                  [j \in 1..ManyCollections |->
                      ClusterCollection(NumberedName(<<"c">>, j), "collection", 1, 1)])>>,
     flaky |-> FALSE]

RECURSIVE SelectSeq2(_, _, _)
\* [x for x in seq if Test(x, arg)]
SelectSeq2(seq, Test(_, _), arg) ==
    IF seq = <<>> THEN <<>>
    ELSE (IF Test(Head(seq), arg) THEN <<Head(seq)>> ELSE <<>>)
         \o SelectSeq2(Tail(seq), Test, arg)

InList(x, list) == \E k \in 1..Len(list) : list[k] = x
\* line 317
NotSystemDatabase(db, unused) ==
    ~StartsWith(db, AdminName) /\ ~StartsWith(db, LocalName) /\ ~StartsWith(db, ConfigName)
\* line 379
NotSystemCollection(coll_name, unused) == ~StartsWith(coll_name, SystemPrefix)

\* lines 312-317
DatabasesToAnalyze(all_databases, include) ==
    IF include # <<>>
    THEN SelectSeq2(all_databases, InList, include)
    ELSE SelectSeq2(all_databases, NotSystemDatabase, <<>>)

\* MongoDBClient.get_databases, get_database_stats and get_collections: a
\* failing driver call is logged and an empty value returned
ClusterDb(db_name) ==
    cluster.dbs[CHOOSE k \in 1..Len(cluster.dbs) : cluster.dbs[k].name = db_name]
GetDatabases(up) ==
    IF up THEN [k \in 1..Len(cluster.dbs) |-> cluster.dbs[k].name] ELSE <<>>
GetDatabaseStats(up, db_name) == IF up THEN ClusterDb(db_name).db_stats ELSE <<>>
GetCollections(up, db_name) ==
    IF up THEN [k \in 1..Len(ClusterDb(db_name).collections) |->
                  ClusterDb(db_name).collections[k].name]
    ELSE <<>>
ClusterColl(db_name, coll_name) ==
    LET cs == ClusterDb(db_name).collections
    IN  cs[CHOOSE k \in 1..Len(cs) : cs[k].name = coll_name]
GetCollectionStats(up, db_name, coll_name) ==
    IF up THEN ClusterColl(db_name, coll_name).coll_stats ELSE <<>>

\* a record written with logger.error
LogRecord(where, db_name, coll_name, text) ==
    [origin |-> where, db |-> db_name, coll |-> coll_name, message |-> text]
ClientError(method, db_name, coll_name) ==
    LogRecord(method, db_name, coll_name, "connection refused")

\* lines 412-433
CollectionStatsOf(db_name, coll_name, raw) ==
    [name |-> coll_name,
     namespace |-> Namespace(db_name, coll_name),
     count |-> Get(raw, "count", 0),
     size |-> Get(raw, "size", 0),
     storage_size |-> Get(raw, "storageSize", 0),
     nindexes |-> Get(raw, "nindexes", 0),
     detailed_indexes |-> NoValue,
     structure_analysis |-> NoValue]

\* lines 401-437: the returned value and what is logged; looking up an
\* attribute the client does not have raises AttributeError inside the try
CollectSingleCollectionStats(up, db_name, coll_name) ==
    IF "is_view" \notin ClientMethods
    THEN [coll_stats |-> NoValue,
          logged |-> {LogRecord("_collect_single_collection_stats", db_name, coll_name,
                                "'MongoDBClient' object has no attribute 'is_view'")}]
    ELSE IF up /\ ClusterColl(db_name, coll_name).kind = "view"
         THEN [coll_stats |-> NoValue, logged |-> {}]
         ELSE [coll_stats |->
                  CollectionStatsOf(db_name, coll_name,
                                    GetCollectionStats(up, db_name, coll_name)),
               logged |-> IF up THEN {}
                          ELSE {ClientError("get_collection_stats", db_name, coll_name)}]

\* lines 484-509, with what the two analyses return for the collection
EnhanceCollectionAnalysis(collection) ==
    LET db_name == SubSeq(collection.namespace, 1,
                          Len(collection.namespace) - Len(collection.name) - 1)
    IN  [collection EXCEPT
           !.detailed_indexes = [analysed |-> collection.nindexes],
           !.structure_analysis = ClusterColl(db_name, collection.name).structure]

\* lines 477-479
RECURSIVE EnhanceCollections(_)
EnhanceCollections(collections) ==
    IF collections = <<>> THEN <<>>
    ELSE <<IF ~StartsWith(Head(collections).name, SystemPrefix)
           THEN EnhanceCollectionAnalysis(Head(collections))
           ELSE Head(collections)>>
         \o EnhanceCollections(Tail(collections))

\* line 174
NewClusterStats ==
    [server_info |-> FALSE, cluster_type |-> "", databases |-> <<>>,
     collections |-> <<>>, total_storage_size |-> 0,
     detailed_performance_metrics |-> NoValue, cluster_health |-> <<>>]

\* a future of the database pool
NewDbTask(db_name) ==
    [name |-> db_name, state |-> "queued", db_stats |-> NoValue,
     collection_stats |-> <<>>, coll_names |-> <<>>, coll_state |-> <<>>]

\* futures whose function is executing on a worker thread
RunningDbTasks == {i \in 1..Len(db_tasks) : db_tasks[i].state \in {"running", "pool"}}
RunningCollTasks(i) ==
    {j \in 1..Len(db_tasks[i].coll_state) : db_tasks[i].coll_state[j] = "running"}

\* a pool of any size: every submitted collection task may start at once
MayStartCollTaskUnbounded(i, j) ==
    /\ db_tasks[i].coll_state[j] = "queued"
    /\ \A k \in 1..(j - 1) : db_tasks[i].coll_state[k] # "queued"

\* line 375: the pool runs queued tasks in submission order on at most
\* max_workers threads
MayStartCollTask(i, j) ==
    /\ db_tasks[i].coll_state[j] = "queued"
    /\ \A k \in 1..(j - 1) : db_tasks[i].coll_state[k] # "queued"
    /\ Cardinality(RunningCollTasks(i)) < CollWorkers

\* a pool whose workers end with their first task: a worker that ran a task
\* is never free again
MayStartDbTaskOnFreshWorker(i) ==
    /\ db_tasks[i].state = "queued"
    /\ \A k \in 1..(i - 1) : db_tasks[k].state # "queued"
    /\ Cardinality({k \in 1..Len(db_tasks) : db_tasks[k].state # "queued"}) < DbWorkers

\* line 322
MayStartDbTask(i) ==
    /\ db_tasks[i].state = "queued"
    /\ \A k \in 1..(i - 1) : db_tasks[k].state # "queued"
    /\ Cardinality(RunningDbTasks) < DbWorkers

\* the calls collect_all_stats may be given
Runs ==
    [cluster : {MixedCluster}, fast_mode : BOOLEAN,
     include_databases : {<<>>, <<AppName, AdminName>>}]
    \cup [cluster : {WideCluster, DeepCluster}, fast_mode : {FALSE},
          include_databases : {<<>>}]

StartCollect(runs) ==
    /\ \E run \in runs :
          /\ cluster = run.cluster
          /\ fast_mode = run.fast_mode
          /\ include_databases = run.include_databases
    /\ reachable = TRUE
    /\ cpc = "start"
    /\ stats = NewClusterStats
    /\ db_tasks = <<>>
    /\ log = {}
    /\ health_call = "none"
    /\ IndexIdle
    /\ FragIdle
    /\ StructIdle
    /\ DbIdle
    /\ HealthIdle
    /\ EnhanceIdle

CollectInit == StartCollect(Runs)

\* the cluster stops answering; every later driver call fails
LoseConnection ==
    /\ cluster.flaky
    /\ reachable
    /\ cpc \notin {"idle", "done"}
    /\ reachable' = FALSE
    /\ UNCHANGED <<cluster, fast_mode, include_databases, cpc, stats, db_tasks, log,
                   health_call, beyondCollect>>

\* lines 176-183: server information, cluster type and topology
CollectServerInfo ==
    /\ cpc = "start"
    /\ stats' = [stats EXCEPT !.server_info = reachable,
                              !.cluster_type = IF reachable THEN "standalone" ELSE "unknown"]
    /\ log' = log \cup (IF reachable THEN {}
                        ELSE {ClientError("get_server_info", <<>>, <<>>),
                              ClientError("get_cluster_type", <<>>, <<>>)})
    /\ cpc' = "databases"
    /\ UNCHANGED <<cluster, reachable, fast_mode, include_databases, db_tasks,
                   health_call, beyondCollect>>

\* lines 309-326: the databases are listed, filtered and submitted
SubmitDatabaseTasks ==
    /\ cpc = "databases"
    /\ LET databases_to_analyze ==
              DatabasesToAnalyze(GetDatabases(reachable), include_databases)
       IN  db_tasks' = [k \in 1..Len(databases_to_analyze) |->
                           NewDbTask(databases_to_analyze[k])]
    /\ log' = log \cup (IF reachable THEN {}
                        ELSE {ClientError("get_databases", <<>>, <<>>)})
    /\ cpc' = "pool"
    /\ UNCHANGED <<cluster, reachable, fast_mode, include_databases, stats,
                   health_call, beyondCollect>>

\* a worker of the database pool takes the next queued future
StartDbTask(i) ==
    /\ cpc = "pool"
    /\ MayStartDbTask(i)
    /\ db_tasks' = [db_tasks EXCEPT ![i].state = "running"]
    /\ UNCHANGED <<cluster, reachable, fast_mode, include_databases, cpc, stats, log,
                   health_call, beyondCollect>>

\* CollectDatabase starting the collection fan-out in fast mode too
CollectDatabaseWhateverMode(i) ==
    /\ cpc = "pool"
    /\ db_tasks[i].state = "running"
    /\ LET db_name == db_tasks[i].name
           built == DatabaseStatsOf(db_name, GetDatabaseStats(reachable, db_name))
           collections == GetCollections(reachable, db_name)
           submitted == SelectSeq2(collections, NotSystemCollection, <<>>)
       IN  IF collections # <<>>
           THEN db_tasks' = [db_tasks EXCEPT
                               ![i].state = "pool",
                               ![i].db_stats = built,
                               ![i].coll_names = submitted,
                               ![i].coll_state = [k \in 1..Len(submitted) |-> "queued"]]
           ELSE db_tasks' = [db_tasks EXCEPT ![i].state = "returned",
                                             ![i].db_stats = built]
    /\ log' = log \cup (IF reachable THEN {}
                        ELSE {ClientError("get_database_stats", db_tasks[i].name, <<>>),
                              ClientError("get_collections", db_tasks[i].name, <<>>)})
    /\ UNCHANGED <<cluster, reachable, fast_mode, include_databases, cpc, stats,
                   health_call, beyondCollect>>

\* lines 345-380: the DatabaseStats is built and the collection tasks are
\* submitted, or lines 345-371 and 395 when there is nothing to submit
CollectDatabase(i) ==
    /\ cpc = "pool"
    /\ db_tasks[i].state = "running"
    /\ LET db_name == db_tasks[i].name
           built == DatabaseStatsOf(db_name, GetDatabaseStats(reachable, db_name))
           collections == GetCollections(reachable, db_name)
           submitted == SelectSeq2(collections, NotSystemCollection, <<>>)
       IN  IF ~fast_mode /\ collections # <<>>
           THEN db_tasks' = [db_tasks EXCEPT
                               ![i].state = "pool",
                               ![i].db_stats = built,
                               ![i].coll_names = submitted,
                               ![i].coll_state = [k \in 1..Len(submitted) |-> "queued"]]
           ELSE db_tasks' = [db_tasks EXCEPT ![i].state = "returned",
                                             ![i].db_stats = built]
    /\ log' = log \cup (IF reachable THEN {}
                        ELSE {ClientError("get_database_stats", db_tasks[i].name, <<>>),
                              ClientError("get_collections", db_tasks[i].name, <<>>)})
    /\ UNCHANGED <<cluster, reachable, fast_mode, include_databases, cpc, stats,
                   health_call, beyondCollect>>

\* a worker of the database's collection pool takes the next queued future
StartCollTask(i, j) ==
    /\ cpc = "pool"
    /\ db_tasks[i].state = "pool"
    /\ MayStartCollTask(i, j)
    /\ db_tasks' = [db_tasks EXCEPT ![i].coll_state[j] = "running"]
    /\ UNCHANGED <<cluster, reachable, fast_mode, include_databases, cpc, stats, log,
                   health_call, beyondCollect>>

\* lines 401-437 on the worker, then lines 382-387 on the database's thread
FinishCollTask(i, j) ==
    /\ cpc = "pool"
    /\ db_tasks[i].state = "pool"
    /\ db_tasks[i].coll_state[j] = "running"
    /\ LET outcome == CollectSingleCollectionStats(reachable, db_tasks[i].name,
                                                   db_tasks[i].coll_names[j])
       IN  /\ db_tasks' = [db_tasks EXCEPT
                             ![i].coll_state[j] = "done",
                             ![i].collection_stats =
                                IF outcome.coll_stats # NoValue
                                THEN Append(@, outcome.coll_stats) ELSE @]
           /\ log' = log \cup outcome.logged
    /\ UNCHANGED <<cluster, reachable, fast_mode, include_databases, cpc, stats,
                   health_call, beyondCollect>>

\* line 395 reached without waiting for the collection futures
ReturnDatabaseEarly(i) ==
    /\ cpc = "pool"
    /\ db_tasks[i].state = "pool"
    /\ db_tasks' = [db_tasks EXCEPT ![i].state = "returned"]
    /\ UNCHANGED <<cluster, reachable, fast_mode, include_databases, cpc, stats, log,
                   health_call, beyondCollect>>

\* line 395: every collection future is done, the database task returns
ReturnDatabase(i) ==
    /\ cpc = "pool"
    /\ db_tasks[i].state = "pool"
    /\ \A j \in 1..Len(db_tasks[i].coll_state) : db_tasks[i].coll_state[j] = "done"
    /\ db_tasks' = [db_tasks EXCEPT ![i].state = "returned"]
    /\ UNCHANGED <<cluster, reachable, fast_mode, include_databases, cpc, stats, log,
                   health_call, beyondCollect>>

\* lines 328-334: as_completed hands a finished future to the calling thread
ConsumeDatabase(i) ==
    /\ cpc = "pool"
    /\ db_tasks[i].state = "returned"
    /\ stats' = [stats EXCEPT
                   !.databases = Append(@, db_tasks[i].db_stats),
                   !.collections = @ \o db_tasks[i].collection_stats]
    /\ db_tasks' = [db_tasks EXCEPT ![i].state = "consumed"]
    /\ UNCHANGED <<cluster, reachable, fast_mode, include_databases, cpc, log,
                   health_call, beyondCollect>>

\* lines 439-463 with the test of line 194 left out
CalculatePerformanceMetricsThenEnhance ==
    /\ cpc = "pool"
    /\ \A i \in 1..Len(db_tasks) : db_tasks[i].state = "consumed"
    /\ stats' = [stats EXCEPT
                   !.total_storage_size =
                      SumSeq([k \in 1..Len(stats.databases) |->
                                 stats.databases[k].storage_size])]
    /\ cpc' = "enhance"
    /\ UNCHANGED <<cluster, reachable, fast_mode, include_databases, db_tasks, log,
                   health_call, beyondCollect>>

\* lines 439-463 once the pool is shut down; in fast mode line 199 follows
CalculatePerformanceMetrics ==
    /\ cpc = "pool"
    /\ \A i \in 1..Len(db_tasks) : db_tasks[i].state = "consumed"
    /\ stats' = [stats EXCEPT
                   !.total_storage_size =
                      SumSeq([k \in 1..Len(stats.databases) |->
                                 stats.databases[k].storage_size])]
    /\ cpc' = IF fast_mode THEN "done" ELSE "enhance"
    /\ UNCHANGED <<cluster, reachable, fast_mode, include_databases, db_tasks, log,
                   health_call, beyondCollect>>

\* lines 469-474: the detailed metrics and the cluster health
EvaluateClusterHealth ==
    /\ cpc = "enhance"
    /\ stats' = [stats EXCEPT
                   !.detailed_performance_metrics =
                      [current_connections |->
                          IF reachable THEN HealthyStatus.connections.current ELSE 0],
                   !.cluster_health =
                      AnalyzeClusterHealth(
                         IF reachable THEN HealthyStatus ELSE UnreachableStatus, <<>>)]
    /\ health_call' = "analyze_cluster_health()"
    /\ log' = log \cup (IF reachable THEN {}
                        ELSE {LogRecord("get_detailed_performance_metrics", <<>>, <<>>,
                                        "connection refused"),
                              LogRecord("analyze_cluster_health", <<>>, <<>>,
                                        "connection refused")})
    /\ cpc' = "collections"
    /\ UNCHANGED <<cluster, reachable, fast_mode, include_databases, db_tasks,
                   beyondCollect>>

\* lines 477-479, then line 199
EnhanceCollectedCollections ==
    /\ cpc = "collections"
    /\ stats' = [stats EXCEPT !.collections = EnhanceCollections(@)]
    /\ cpc' = "done"
    /\ UNCHANGED <<cluster, reachable, fast_mode, include_databases, db_tasks, log,
                   health_call, beyondCollect>>

CollectNext ==
    \/ LoseConnection
    \/ CollectServerInfo
    \/ SubmitDatabaseTasks
    \/ \E i \in 1..Len(db_tasks) : StartDbTask(i)
    \/ \E i \in 1..Len(db_tasks) : CollectDatabase(i)
    \/ \E i \in 1..Len(db_tasks) : \E j \in 1..Len(db_tasks[i].coll_state) : StartCollTask(i, j)
    \/ \E i \in 1..Len(db_tasks) : \E j \in 1..Len(db_tasks[i].coll_state) : FinishCollTask(i, j)
    \/ \E i \in 1..Len(db_tasks) : ReturnDatabase(i)
    \/ \E i \in 1..Len(db_tasks) : ConsumeDatabase(i)
    \/ CalculatePerformanceMetrics
    \/ EvaluateClusterHealth
    \/ EnhanceCollectedCollections

SpecCollect == CollectInit /\ [][CollectNext]_vars

\* the steps of the program: every step but the cluster's LoseConnection
CollectSteps ==
    \/ CollectServerInfo
    \/ SubmitDatabaseTasks
    \/ \E i \in 1..Len(db_tasks) : StartDbTask(i)
    \/ \E i \in 1..Len(db_tasks) : CollectDatabase(i)
    \/ \E i \in 1..Len(db_tasks) : \E j \in 1..Len(db_tasks[i].coll_state) : StartCollTask(i, j)
    \/ \E i \in 1..Len(db_tasks) : \E j \in 1..Len(db_tasks[i].coll_state) : FinishCollTask(i, j)
    \/ \E i \in 1..Len(db_tasks) : ReturnDatabase(i)
    \/ \E i \in 1..Len(db_tasks) : ConsumeDatabase(i)
    \/ CalculatePerformanceMetrics
    \/ EvaluateClusterHealth
    \/ EnhanceCollectedCollections

\* Every driver call returns or raises, a pool's worker takes the next queued
\* future, the calling thread runs: a step of the program that stays possible
\* is taken.
SpecCollectLive == CollectInit /\ [][CollectNext]_vars /\ WF_vars(CollectSteps)


-----------------------------------------------------------------------------
(* Part VII: the enhancement pass, cluster_stats.py lines 476-509           *)

MaxEnhanced == 2   \* collections in stats.collections when a pass begins

ProfileName == SystemPrefix \o <<"p", "r", "o", "f", "i", "l", "e">>

\* what collStats reported for a collection when it was collected
CollectedSizes ==
    {[count |-> 3, size |-> 30, storageSize |-> 40, nindexes |-> 1],
     [count |-> 9, size |-> 600, storageSize |-> 1000, nindexes |-> 2]}

\* the CollectionStats a pass may find at position k of stats.collections
CollectedAt(k) ==
    {CollectionStatsOf(AppName, NumberedName(<<"c">>, k), raw) : raw \in CollectedSizes}
       \cup {CollectionStatsOf(AppName, ProfileName, CHOOSE raw \in CollectedSizes : raw.count = 3)}

\* the lists a pass may be given: namespaces are pairwise distinct
CollectedLists ==
    UNION {{list \in [1..n -> UNION {CollectedAt(k) : k \in 1..n}] :
               /\ \A k \in 1..n : list[k] \in CollectedAt(k)
               /\ \A k \in 1..(n - 1) : list[k].name # ProfileName}
           : n \in 0..MaxEnhanced}

\* str.split('.', 1), line 487
SplitOnce(s) ==
    IF \E k \in 1..Len(s) : s[k] = "."
    THEN LET dot == CHOOSE k \in 1..Len(s) :
                       s[k] = "." /\ \A earlier \in 1..(k - 1) : s[earlier] # "."
         IN  <<SubSeq(s, 1, dot - 1), SubSeq(s, dot + 1, Len(s))>>
    ELSE <<s>>

\* lines 490-495: the dict handed to the cache
SizeStatsOf(collection) ==
    [storageSize |-> collection.storage_size,
     size |-> collection.size,
     count |-> collection.count]

\* a cache that keeps the entry a namespace already has
CacheCollectionStatsOnce(cache, namespace, entry) ==
    IF DictHas(cache, namespace) THEN cache
    ELSE Append(cache, [key |-> namespace, value |-> entry])

\* enhanced_analysis.py lines 636-638: self._collection_stats_cache[namespace] = stats
CacheCollectionStats(cache, namespace, entry) ==
    IF DictHas(cache, namespace)
    THEN [cache EXCEPT ![DictIndex(cache, namespace)].value = entry]
    ELSE Append(cache, [key |-> namespace, value |-> entry])

\* a write or a read of the cache
CacheEvent(kind, namespace, at, entry) ==
    [op |-> kind, key |-> namespace, by |-> at, value |-> entry]

\* enhanced_analysis.py lines 362 and 450-461: the fragmentation fields of the
\* CollectionStructureAnalysis, as constructed and as the cache entry sets them
NewStructure(namespace) ==
    [namespace |-> namespace,
     fragmentation_percentage |-> NewAnalysis.fragmentation_percentage,
     storage_efficiency |-> NewAnalysis.storage_efficiency,
     wasted_space_bytes |-> NewAnalysis.wasted_space_bytes,
     fragmentation_level |-> NewAnalysis.fragmentation_level]
MeasuredStructure(namespace, cache) ==
    IF DictHas(cache, namespace)
    THEN LET sizes == cache[DictIndex(cache, namespace)].value
             m == CalculateFragmentation(sizes.storageSize, sizes.size)
         IN  [namespace |-> namespace,
              fragmentation_percentage |-> m.fragmentation_percentage,
              storage_efficiency |-> m.storage_efficiency,
              wasted_space_bytes |-> m.wasted_space_bytes,
              fragmentation_level |-> m.fragmentation_level]
    ELSE NewStructure(namespace)

\* the names line 487 takes from the namespace of the collection the loop is at
CurrentNames == SplitOnce(collected[position].namespace)

\* a pass begins on a collector: the analyzer and its cache are new
EnhanceInit ==
    /\ epc = "loop"
    /\ pass = "first"
    /\ collected \in CollectedLists
    /\ position = 1
    /\ collection_stats_cache = <<>>
    /\ cache_events = <<>>
    /\ enh_log = {}
    /\ IndexIdle
    /\ FragIdle
    /\ StructIdle
    /\ DbIdle
    /\ HealthIdle
    /\ CollectIdle

\* line 478 false: a system collection is passed over
SkipSystemCollection ==
    /\ epc = "loop"
    /\ position <= Len(collected)
    /\ StartsWith(collected[position].name, SystemPrefix)
    /\ position' = position + 1
    /\ UNCHANGED <<epc, pass, collected, collection_stats_cache, cache_events, enh_log,
                   beyondEnhance>>

\* lines 478-479 and 486-495: the sizes of the collection are cached
CacheStats ==
    /\ epc = "loop"
    /\ position <= Len(collected)
    /\ ~StartsWith(collected[position].name, SystemPrefix)
    /\ collection_stats_cache' =
          CacheCollectionStats(collection_stats_cache, collected[position].namespace,
                               SizeStatsOf(collected[position]))
    /\ cache_events' = Append(cache_events,
                              CacheEvent("write", collected[position].namespace, position,
                                         SizeStatsOf(collected[position])))
    /\ epc' = "indexes"
    /\ UNCHANGED <<pass, collected, position, enh_log, beyondEnhance>>

\* AnalyzeCollectionIndexes with an analysis that lets its exception out: it
\* reaches the except of _perform_enhanced_analysis, lines 481-482
AnalyzeCollectionIndexesUncaught ==
    /\ epc = "indexes"
    /\ \E outcome \in {"ok", "raises"} :
          IF outcome = "ok"
          THEN /\ collected' = [collected EXCEPT ![position].detailed_indexes =
                                   [analysed |-> collected[position].nindexes]]
               /\ epc' = "structure"
               /\ UNCHANGED enh_log
          ELSE /\ enh_log' = enh_log \cup
                     {LogRecord("_perform_enhanced_analysis", CurrentNames[1],
                                CurrentNames[2], "index analysis failed")}
               /\ epc' = "done"
               /\ UNCHANGED collected
    /\ UNCHANGED <<pass, position, collection_stats_cache, cache_events, beyondEnhance>>

\* line 499: analyze_collection_indexes returns its list, or logs what was
\* raised inside it and returns [] (enhanced_analysis.py lines 172-174)
AnalyzeCollectionIndexes ==
    /\ epc = "indexes"
    /\ \E outcome \in {"ok", "raises"} :
          /\ collected' = [collected EXCEPT ![position].detailed_indexes =
                              IF outcome = "ok"
                              THEN [analysed |-> collected[position].nindexes]
                              ELSE <<>>]
          /\ enh_log' = enh_log \cup
                (IF outcome = "ok" THEN {}
                 ELSE {LogRecord("analyze_collection_indexes", CurrentNames[1],
                                 CurrentNames[2], "index analysis failed")})
    /\ epc' = "structure"
    /\ UNCHANGED <<pass, position, collection_stats_cache, cache_events, beyondEnhance>>

\* lines 503-505: analyze_collection_structure samples the collection and,
\* unless the sample is empty (line 375) or something raised inside it
\* (lines 468-470), reads the cache under f"{db_name}.{collection_name}"
AnalyzeCollectionStructure ==
    /\ epc = "structure"
    /\ LET namespace == Namespace(CurrentNames[1], CurrentNames[2])
       IN  \E outcome \in {"ok", "empty", "raises"} :
              /\ collected' = [collected EXCEPT ![position].structure_analysis =
                                  IF outcome = "ok"
                                  THEN MeasuredStructure(namespace, collection_stats_cache)
                                  ELSE NewStructure(namespace)]
              /\ cache_events' =
                    IF outcome = "ok" /\ DictHas(collection_stats_cache, namespace)
                    THEN Append(cache_events,
                                CacheEvent("read", namespace, position,
                                           collection_stats_cache[
                                              DictIndex(collection_stats_cache, namespace)].value))
                    ELSE cache_events
              /\ enh_log' = enh_log \cup
                    (IF outcome = "raises"
                     THEN {LogRecord("analyze_collection_structure", CurrentNames[1],
                                     CurrentNames[2], "structure analysis failed")}
                     ELSE {})
    /\ position' = position + 1
    /\ epc' = "loop"
    /\ UNCHANGED <<pass, collection_stats_cache, beyondEnhance>>

\* the loop of lines 477-479 is over
FinishPass ==
    /\ epc = "loop"
    /\ position > Len(collected)
    /\ epc' = "done"
    /\ UNCHANGED <<pass, collected, position, collection_stats_cache, cache_events,
                   enh_log, beyondEnhance>>

\* collect_all_stats is called again on the collector: the analyzer of line
\* 159 and its cache are the same, stats.collections is new
NextPass ==
    /\ epc = "done"
    /\ pass = "first"
    /\ pass' = "second"
    /\ collected' \in CollectedLists
    /\ position' = 1
    /\ cache_events' = <<>>
    /\ enh_log' = {}
    /\ epc' = "loop"
    /\ UNCHANGED <<collection_stats_cache, beyondEnhance>>

EnhanceNext ==
    \/ SkipSystemCollection
    \/ CacheStats
    \/ AnalyzeCollectionIndexes
    \/ AnalyzeCollectionStructure
    \/ FinishPass
    \/ NextPass

SpecEnhance == EnhanceInit /\ [][EnhanceNext]_vars

-----------------------------------------------------------------------------
(* Properties of the index analysis                                        *)

Contains(seq, x) == \E k \in 1..Len(seq) : seq[k] = x
NoRepeats(seq) == \A k1, k2 \in 1..Len(seq) : k1 # k2 => seq[k1] # seq[k2]
Names(list) == [k \in 1..Len(list) |-> list[k].name]

\* the text of a recommendation: its fragments joined by "; "
RECURSIVE RecText(_)
RecText(frags) ==
    IF frags = <<>> THEN ""
    ELSE IF Len(frags) = 1 THEN frags[1]
    ELSE frags[1] \o "; " \o RecText(Tail(frags))

\* the exemption as the specification states it: the _id-only index and a
\* declared shard key
Exempt(index) == index.key = IdKey \/ index.is_shard_key

\* B's field sequence is a strict prefix of A's, and every shared field's
\* direction matches under sign-insensitive comparison
StrictPrefix(B, A) ==
    /\ Len(B.fields) < Len(A.fields)
    /\ \A k \in 1..Len(B.fields) : B.fields[k] = A.fields[k]
SignInsensitiveMatch(d1, d2) ==
    \/ d1 = d2
    \/ d1.isint /\ d2.isint /\ Abs(d1.n) = Abs(d2.n)
DirectionsCompatible(B, A) ==
    \A k \in 1..Len(B.key) : SignInsensitiveMatch(B.key[k][2], A.key[k][2])

IsFlaggingIssue(issue, list) ==
    \E k \in 1..Len(list) :
        issue = DuplicateIssue(list[k].name) \/ issue = RedundantIssue(list[k].name)

\* C1: once the duplicate pass has run, and in the list the analysis returns,
\* any two distinct indexes with equal effective key, neither exempt, are both
\* flagged is_duplicate, and the issues of each hold the "Duplicate of index
\* <name>" message naming the other.
MutuallyFlagged(list) ==
    \A i, j \in 1..Len(list) :
        ( /\ i # j
          /\ list[i].effective_key = list[j].effective_key
          /\ ~Exempt(list[i])
          /\ ~Exempt(list[j]) )
        => /\ list[i].is_duplicate
           /\ list[j].is_duplicate
           /\ Contains(list[i].issues, DuplicateIssue(list[j].name))
           /\ Contains(list[j].issues, DuplicateIssue(list[i].name))
C1_DuplicatesFlagged ==
    /\ pc \in {"redundant", "properties", "done", "failed"} =>
          MutuallyFlagged(detailed_indexes)
    /\ pc = "done" =>
          /\ Len(result) = Len(indexes)
          /\ MutuallyFlagged(result)

\* three indexes with one effective key, not all with the same directions, and
\* each names the two others
C1_Witness ==
    /\ pc = "done"
    /\ Len(result) = 3
    /\ \A i, j \in 1..3 :
          i # j => /\ result[i].effective_key = result[j].effective_key
                   /\ ~Exempt(result[i])
                   /\ result[i].is_duplicate
                   /\ Contains(result[i].issues, DuplicateIssue(result[j].name))
    /\ \E i, j \in 1..3 : result[i].key_string # result[j].key_string

\* C2: for every ordered pair (B, A) of non-exempt indexes where B's fields are
\* a strict prefix of A's with sign-insensitively matching directions, after the
\* analysis B is flagged is_duplicate, B's issues name A, B's recommendation
\* names A, and A carries no annotation that stems from the pair; also when B
\* is a prefix of several longer indexes.
C2_RedundantPrefixNamesEveryLonger ==
    pc = "done" =>
        \A b, a \in 1..Len(result) :
            ( /\ b # a
              /\ ~Exempt(result[b])
              /\ ~Exempt(result[a])
              /\ StrictPrefix(result[b], result[a])
              /\ DirectionsCompatible(result[b], result[a]) )
            => /\ result[b].is_duplicate
               /\ Contains(result[b].issues, RedundantIssue(result[a].name))
               /\ Contains(result[b].recommendation, DropRec(result[a].name))
               /\ ~Contains(result[a].issues, RedundantIssue(result[b].name))
               /\ ~Contains(result[a].issues, DuplicateIssue(result[b].name))
               /\ ~Contains(result[a].recommendation, DropRec(result[b].name))

\* C3: an index whose key is exactly {_id: 1} (or a declared shard key) never
\* ends the analysis flagged is_duplicate nor with a "Duplicate of" or
\* "Redundant prefix" issue, and no other index is flagged because of it.
C3_ExemptNeverFlagged ==
    pc = "done" =>
        \A i \in 1..Len(result) :
            Exempt(result[i]) =>
                /\ ~result[i].is_duplicate
                /\ \A k \in 1..Len(result[i].issues) :
                      ~IsFlaggingIssue(result[i].issues[k], result)
                /\ \A j \in 1..Len(result) :
                      /\ ~Contains(result[j].issues, DuplicateIssue(result[i].name))
                      /\ ~Contains(result[j].issues, RedundantIssue(result[i].name))

\* the list as lines 153-157 build it, before line 160 sorts it
CreatedList ==
    [p \in 1..Len(indexes) |->
        AnalyzeIndexProperties(CreateDetailedIndex(indexes[p], index_usage_stats))]

\* C4: the final recommendation of an index flagged redundant is the complete
\* "drop in favor of <longer index>" text of the redundancy pass, followed by
\* the fragments of the property pass joined to it by "; " (none replaces it),
\* and it holds every fragment the index was given when it was created.
C4_RedundancyRecommendationKept ==
    pc = "done" =>
        \A i \in 1..Len(result) :
            (\E j \in 1..Len(result) :
                Contains(result[i].issues, RedundantIssue(result[j].name)))
            => \E j \in 1..Len(result) :
                  /\ Contains(result[i].issues, RedundantIssue(result[j].name))
                  /\ result[i].recommendation # <<>>
                  /\ Head(result[i].recommendation) = DropRec(result[j].name)
                  /\ Tail(result[i].recommendation) = PropertyRecommendations(result[i])
                  /\ \A k \in 1..Len(CreatedList) :
                        (CreatedList[k].name = result[i].name
                            /\ CreatedList[k].recommendation # <<NoIssuesDetected>>)
                        => \A f \in 1..Len(CreatedList[k].recommendation) :
                              Contains(result[i].recommendation,
                                       CreatedList[k].recommendation[f])

\* a redundant index for which the property pass has fragments of its own
C4_Witness ==
    /\ pc = "done"
    /\ \E i, j \in 1..Len(result) :
          /\ Contains(result[i].issues, RedundantIssue(result[j].name))
          /\ Head(result[i].recommendation) = DropRec(result[j].name)
          /\ Contains(result[i].recommendation, SparseRec)
          /\ Contains(result[i].recommendation, UnusedRec)

\* C5: after index analysis every index whose issues list is empty
\* has the recommendation text "No issues detected", sparse, partial-filtered,
\* compound and text-weighted indexes included.
C5_NoIssuesTextForEveryIssueFreeIndex ==
    pc = "done" =>
        \A i \in 1..Len(result) :
            result[i].issues = <<>> =>
                RecText(result[i].recommendation) = "No issues detected"

\* C6: with pairwise distinct index names, no index's issues list holds the
\* same message twice, at any point of the pass sequence and in the result.
C6_IssuesNeverRepeat ==
    /\ NoRepeats(Names(detailed_indexes)) =>
          \A i \in 1..Len(detailed_indexes) : NoRepeats(detailed_indexes[i].issues)
    /\ NoRepeats(Names(result)) =>
          \A i \in 1..Len(result) : NoRepeats(result[i].issues)

\* an index that gathered issues in every pass: TTL and unused (property pass),
\* duplicate, redundant prefix
C6_Witness ==
    /\ pc = "done"
    /\ \E i, j, k \in 1..Len(result) :
          /\ Len(result[i].issues) = 4
          /\ Contains(result[i].issues, UnusedIssue)
          /\ Contains(result[i].issues, DuplicateIssue(result[j].name))
          /\ Contains(result[i].issues, RedundantIssue(result[k].name))

\* the usage counter recorded on the server under the name of index p
RecordedOps(p) ==
    IF usage_outcome = "ok" /\ coll.ops[p] >= 0 THEN coll.ops[p] ELSE 0

\* C7: the analysis returns exactly one DetailedIndex per raw index definition,
\* with total_ops the usage counter recorded under the index's name, 0 when
\* there is none; when the usage source is unsupported or fails, it still
\* returns every index, all with total_ops = 0.
C7_OneDetailedIndexPerRawIndex ==
    pc \in {"done", "failed"} =>
        /\ Len(result) = Len(indexes)
        /\ \A p \in 1..Len(indexes) :
              /\ Cardinality({i \in 1..Len(result) : result[i].name = indexes[p].name}) = 1
              /\ \A i \in 1..Len(result) :
                    result[i].name = indexes[p].name =>
                        /\ result[i].key = indexes[p].key
                        /\ result[i].total_ops = RecordedOps(p)
                        /\ usage_outcome # "ok" => result[i].total_ops = 0

IsSortedByEffectiveKey(list) ==
    \A i, j \in 1..Len(list) :
        i < j => ~StrLess(list[j].effective_key, list[i].effective_key)

\* C8: the returned list is ordered by non-decreasing effective key, and the
\* duplicate, redundancy and property passes that run after the sort change
\* neither the order nor the membership of the list.
C8_SortedAndOrderKept ==
    /\ pc \in {"duplicates", "redundant", "properties", "done", "failed"} =>
          /\ IsSortedByEffectiveKey(detailed_indexes)
          /\ Len(detailed_indexes) = Len(indexes)
          /\ {detailed_indexes[i].name : i \in 1..Len(detailed_indexes)}
                = {indexes[p].name : p \in 1..Len(indexes)}
          /\ Names(detailed_indexes) = Names(SortByEffectiveKey(CreatedList))
    /\ pc = "done" =>
          /\ IsSortedByEffectiveKey(result)
          /\ Names(result) = Names(detailed_indexes)

\* a returned list of three in another order than the server listed them, on
\* which both the duplicate and the redundancy pass have acted
C8_Witness ==
    /\ pc = "done"
    /\ Len(result) = 3
    /\ Names(result) # [p \in 1..Len(indexes) |-> indexes[p].name]
    /\ \E i, j \in 1..3 : Contains(result[i].issues, DuplicateIssue(result[j].name))
    /\ \E i, j \in 1..3 : Contains(result[i].issues, RedundantIssue(result[j].name))

-----------------------------------------------------------------------------
(* Properties of calculate_fragmentation                                   *)

Computed == frag_metrics # <<>>

\* h hundredths is a nearest two-decimal value of n / d * 100, d > 0
IsRoundedPercent(h, n, d) ==
    LET diff == h * d - n * 10000
    IN  2 * Abs(diff) <= d

LevelOf(wasted, storage) ==
    IF wasted * 100 < 10 * storage THEN "low"
    ELSE IF wasted * 100 < 25 * storage THEN "medium"
    ELSE IF wasted * 100 < 50 * storage THEN "high"
    ELSE "critical"

\* what is common to C9 as stated and as amended: the three cases, the wasted
\* bytes, the level taken from the exact quotient, and the documented examples
FragmentationCases ==
    /\ storage_size <= 0 =>
          frag_metrics = [fragmentation_percentage |-> 0,
                          storage_efficiency       |-> 10000,
                          wasted_space_bytes       |-> 0,
                          fragmentation_level      |-> "unknown"]
    /\ (0 < storage_size /\ storage_size < data_size) =>
          /\ frag_metrics.fragmentation_level = "compressed"
          /\ frag_metrics.wasted_space_bytes = 0
          /\ frag_metrics.fragmentation_percentage = 0
    /\ (0 < storage_size /\ storage_size >= data_size) =>
          /\ frag_metrics.wasted_space_bytes = storage_size - data_size
          /\ frag_metrics.fragmentation_level
                = LevelOf(storage_size - data_size, storage_size)
    /\ (storage_size = 500 /\ data_size = 600) =>
          /\ frag_metrics.fragmentation_level = "compressed"
          /\ frag_metrics.storage_efficiency = 12000
    /\ (storage_size = 1000 /\ data_size = 950) =>
          /\ frag_metrics.fragmentation_level = "low"
          /\ frag_metrics.wasted_space_bytes = 50
          /\ frag_metrics.fragmentation_percentage = 500
    /\ (storage_size = 1000 /\ data_size = 600) =>
          /\ frag_metrics.fragmentation_level = "high"
          /\ frag_metrics.fragmentation_percentage = 4000

\* C9 as stated: in the compressed case the efficiency is dataSize /
\* storageSize * 100, otherwise the fragmentation is waste / storageSize * 100.
C9_ExactQuotients ==
    Computed =>
        /\ FragmentationCases
        /\ (0 < storage_size /\ storage_size < data_size) =>
              frag_metrics.storage_efficiency * storage_size = data_size * 10000
        /\ (0 < storage_size /\ storage_size >= data_size) =>
              frag_metrics.fragmentation_percentage * storage_size
                 = (storage_size - data_size) * 10000

\* C9 as amended: the efficiency and the fragmentation returned are these
\* quotients rounded to two decimals; the level is taken from the quotient
\* before it is rounded.
C9_RoundedQuotients ==
    Computed =>
        /\ FragmentationCases
        /\ (0 < storage_size /\ storage_size < data_size) =>
              IsRoundedPercent(frag_metrics.storage_efficiency, data_size, storage_size)
        /\ (0 < storage_size /\ storage_size >= data_size) =>
              /\ IsRoundedPercent(frag_metrics.fragmentation_percentage,
                                  storage_size - data_size, storage_size)
              /\ IsRoundedPercent(frag_metrics.storage_efficiency,
                                  data_size, storage_size)

\* a quotient that two decimals do not hold: 1 byte of 3 wasted is returned
\* as 33.33 percent, 2 of 3 used as 66.67 percent
C9_Witness ==
    /\ Computed
    /\ storage_size = 3
    /\ data_size = 2
    /\ frag_metrics.fragmentation_percentage = 3333
    /\ frag_metrics.storage_efficiency = 6667
    /\ frag_metrics.fragmentation_level = "high"

\* C10: for every pair of integers (storageSize, dataSize), a level
\* other than unknown comes with a fragmentation percentage in [0, 100] and
\* wasted bytes >= 0.
C10_PercentageInRange ==
    (Computed /\ frag_metrics.fragmentation_level # "unknown") =>
        /\ 0 <= frag_metrics.fragmentation_percentage
        /\ frag_metrics.fragmentation_percentage <= 10000
        /\ frag_metrics.wasted_space_bytes >= 0

-----------------------------------------------------------------------------
(* Properties of the structure analysis                                    *)

StructureAnalysed == spc = "done" /\ acc # <<>>

\* C11: the distinct-field count and the queryable-path count of a document
\* differ in what they count (the second has the paths with explicit array
\* indices): for {a: {b: 1}, c: [{x: 1}, {y: 2}]} the distinct-field count is
\* 5, the queryable-path count is 6, and the two differ.
C11_DistinctAndQueryableCounts ==
    StructureAnalysed =>
        \A k \in 1..Len(sample) :
            sample[k] = DocMixed =>
                /\ acc.field_counts[k] = 5
                /\ acc.queryable_path_counts[k] = 6
                /\ acc.field_counts[k] # acc.queryable_path_counts[k]

\* the depth of a value through maps and arrays alike, a scalar being 0
RECURSIVE DepthThroughMapsAndArrays(_)
DepthThroughMapsAndArrays(v) ==
    MaxOf({0} \cup
          {1 + DepthThroughMapsAndArrays(v.vals[k]) :
              k \in {k \in 1..Len(v.vals) : IsDict(v.vals[k]) \/ IsList(v.vals[k])}})

\* C12: the nesting depth of a document is its recursive depth through nested
\* map and array values, scalars contributing 0, so that a map inside an array
\* element adds depth as a map inside a map does; has_deep_nesting is set
\* exactly when the maximum depth over the sample exceeds 5.
C12_DepthThroughArrays ==
    StructureAnalysed =>
        LET deepest == MaxOf({DepthThroughMapsAndArrays(sample[k]) : k \in 1..Len(sample)})
        IN  /\ \A k \in 1..Len(sample) :
                  acc.nesting_depths[k] = DepthThroughMapsAndArrays(sample[k])
            /\ analysis.max_nesting_depth = deepest
            /\ analysis.has_deep_nesting <=> deepest > 5

-----------------------------------------------------------------------------
(* Properties of the database statistics                                   *)

\* what dbStats reported under a key, a missing value counting as zero
Reported(raw, key) == IF key \in DOMAIN raw THEN raw[key] ELSE 0
EmptinessKeys == {"objects", "collections", "dataSize"}
\* raw with the value under key changed to v
Changed(raw, key, v) ==
    [k \in DOMAIN raw \cup {key} |-> IF k = key THEN v ELSE raw[k]]

\* C13: a DatabaseStats has empty = true if and only if the reported object
\* count, collection count and data size are all zero (missing values counted
\* as zero); changing any single one of the three to a positive value makes it
\* non-empty.
C13_EmptyIffAllThreeZero ==
    db_stats # <<>> =>
        /\ db_stats.empty <=> \A key \in EmptinessKeys : Reported(db_stats_raw, key) = 0
        /\ \A key \in EmptinessKeys : \A v \in 1..MaxCount :
              ~DatabaseStatsOf("db", Changed(db_stats_raw, key, v)).empty

\* an empty database that reports an index size, and whose collection count
\* alone decides
C13_Witness ==
    /\ db_stats # <<>>
    /\ db_stats.empty
    /\ DOMAIN db_stats_raw = {"collections", "indexSize"}
    /\ db_stats_raw["indexSize"] > 0
    /\ ~DatabaseStatsOf("db", Changed(db_stats_raw, "collections", 1)).empty

-----------------------------------------------------------------------------
(* Properties of the cluster health evaluation                             *)

\* the evaluation ran into an exception: the serverStatus command raised or
\* a later step did
HealthRaised == server_status.raises \/ server_status.connections = NoValue
HealthFailureMessage ==
    "Health check failed: " \o
       (IF server_status.raises THEN server_status.error
        ELSE "'NoneType' object has no attribute 'get'")

\* C15: whenever health evaluation completes without an internal exception,
\* the verdict is 'healthy' iff the issue list is empty, 'warning' iff it holds
\* 1 or 2 issues, and 'critical' iff it holds 3 or more.
C15_VerdictByIssueCount ==
    (health_report # <<>> /\ ~HealthRaised) =>
        /\ health_report.overall_health = "healthy" <=> Len(health_report.issues) = 0
        /\ health_report.overall_health = "warning" <=> Len(health_report.issues) \in {1, 2}
        /\ health_report.overall_health = "critical" <=> Len(health_report.issues) >= 3

\* exactly three issues, none of them from a failure, give 'critical'
C15_Witness ==
    /\ health_report # <<>>
    /\ ~HealthRaised
    /\ Len(health_report.issues) = 3
    /\ health_report.overall_health = "critical"

\* C16: health evaluation never raises to its caller: if an exception occurs
\* at any step of the evaluation, it returns a report with verdict 'error'
\* whose issue list contains exactly one entry, the failure message, and no
\* issue gathered before the exception.
C16_ErrorReportHasSoleIssue ==
    (health_report # <<>> /\ HealthRaised) =>
        /\ health_report.overall_health = "error"
        /\ health_report.issues = <<HealthFailureMessage>>

-----------------------------------------------------------------------------
(* Properties of the collection run                                        *)

\* collect_all_stats has returned its ClusterStats
Returned == cpc = "done"
NamespacesOf(collections) ==
    {collections[k].namespace : k \in 1..Len(collections)}
\* the records of collection tasks that ended in the except branch
FailedCollectionTasks ==
    {r \in log : r.origin = "_collect_single_collection_stats"}
\* the collections and views the cluster holds in a database
ListedCollections(db_name) ==
    {ClusterDb(db_name).collections[k] : k \in 1..Len(ClusterDb(db_name).collections)}
\* those for which the cluster answers every call of a collection task: no
\* view, no system collection
AnswerableCollections(db_name) ==
    {c \in ListedCollections(db_name) :
        c.kind = "collection" /\ ~StartsWith(c.name, SystemPrefix)}
RECURSIVE NameText(_)
NameText(chars) == IF chars = <<>> THEN "" ELSE Head(chars) \o NameText(Tail(chars))

C17_HealthAfterEnhancementOverCollections ==
    (cpc \notin {"idle", "start"} /\ ~fast_mode /\ stats.cluster_health # <<>>) =>
        /\ cpc = "done"
        /\ health_call = "analyze_cluster_health(stats.collections)"
        /\ \A k \in 1..Len(stats.collections) :
              LET c == stats.collections[k]
                  named(issue) ==
                     \E m \in 1..Len(stats.cluster_health.issues) :
                        stats.cluster_health.issues[m] = issue
              IN  /\ c.structure_analysis # NoValue
                  /\ c.structure_analysis.max_nesting_depth > 6
                        => named("Deep nesting detected in " \o NameText(c.namespace)
                                 \o " (depth: "
                                 \o ToString(c.structure_analysis.max_nesting_depth) \o ")")
                  /\ c.structure_analysis.max_array_size > 1000
                        => named("Large array detected in " \o NameText(c.namespace)
                                 \o " (" \o ToString(c.structure_analysis.max_array_size)
                                 \o " items)")
                  /\ c.nindexes > 10
                        => named("Too many indexes in " \o NameText(c.namespace)
                                 \o " (" \o ToString(c.nindexes) \o " indexes)")

\* a driver call failed because the cluster could not be reached
ConnectivityFailures == {r \in log : r.message = "connection refused"}

\* C18: when the cluster is or becomes unreachable during a run (client calls
\* fail with a connectivity error), the run is aborted with the failure
\* surfaced to the caller, and no partial snapshot is produced or returned.
C18_UnreachableClusterAbortsRun ==
    ConnectivityFailures # {} => ~Returned

\* the views of the submitted databases
SubmittedViews ==
    UNION {{<<db_tasks[i].name, c.name>> :
               c \in {x \in ListedCollections(db_tasks[i].name) : x.kind = "view"}}
           : i \in 1..Len(db_tasks)}

\* C19: no CollectionStats in the snapshot belongs to a collection whose name
\* starts with 'system.' or that the cluster reports as a view; a view is
\* excluded even though its name passes the naming filter, and its exclusion
\* is not treated as a task failure.
C19_ViewsExcludedWithoutFailure ==
    (Returned /\ reachable) =>
        /\ \A k \in 1..Len(stats.collections) :
              /\ ~StartsWith(stats.collections[k].name, SystemPrefix)
              /\ \A v \in SubmittedViews :
                    stats.collections[k].namespace # Namespace(v[1], v[2])
        /\ \A v \in SubmittedViews :
              \A r \in FailedCollectionTasks : <<r.db, r.coll>> # v

\* the next future of a pool's queue
NextQueuedDbTask(i) ==
    /\ db_tasks[i].state = "queued"
    /\ \A k \in 1..(i - 1) : db_tasks[k].state # "queued"
NextQueuedCollTask(i, j) ==
    /\ db_tasks[i].state = "pool"
    /\ db_tasks[i].coll_state[j] = "queued"
    /\ \A k \in 1..(j - 1) : db_tasks[i].coll_state[k] # "queued"

\* C20: at every moment of a run at most 5 database tasks execute
\* simultaneously and, within any one database task, at most 10 collection
\* tasks execute simultaneously; the two fan-outs use separately sized pools,
\* not one global pool: a queued task waits only for a worker of its own pool.
C20_SeparateBoundedPools ==
    cpc = "pool" =>
        /\ Cardinality(RunningDbTasks) <= 5
        /\ \A i \in 1..Len(db_tasks) :
              /\ Cardinality(RunningCollTasks(i)) <= 10
              /\ (NextQueuedDbTask(i) /\ Cardinality(RunningDbTasks) < 5)
                    => ENABLED StartDbTask(i)
              /\ \A j \in 1..Len(db_tasks[i].coll_state) :
                    (NextQueuedCollTask(i, j) /\ Cardinality(RunningCollTasks(i)) < 10)
                       => ENABLED StartCollTask(i, j)

\* five database tasks execute and a sixth waits for a worker
C20_Witness ==
    /\ cpc = "pool"
    /\ Cardinality(RunningDbTasks) = 5
    /\ \E i \in 1..Len(db_tasks) : db_tasks[i].state = "queued"

\* C21: a fast-mode run never invokes the index analyzer, the structure
\* analyzer or the health evaluator: the returned snapshot has an empty
\* cluster health, no detailed performance metrics, and no collection carries
\* detailed indexes or a structure analysis, while database-level size/count
\* statistics are still returned.
C21_FastModeSkipsAnalysis ==
    (Returned /\ fast_mode) =>
        /\ health_call = "none"
        /\ stats.cluster_health = <<>>
        /\ stats.detailed_performance_metrics = NoValue
        /\ \A k \in 1..Len(stats.collections) :
              /\ stats.collections[k].detailed_indexes = NoValue
              /\ stats.collections[k].structure_analysis = NoValue
        /\ \A i \in 1..Len(db_tasks) :
              \E k \in 1..Len(stats.databases) :
                 /\ stats.databases[k].name = db_tasks[i].name
                 /\ reachable =>
                       stats.databases[k] =
                          DatabaseStatsOf(db_tasks[i].name,
                                          ClusterDb(db_tasks[i].name).db_stats)

\* a fast-mode run has returned the sizes of a database that holds data
C21_Witness ==
    /\ Returned
    /\ fast_mode
    /\ \E k \in 1..Len(stats.databases) :
          /\ ~stats.databases[k].empty
          /\ stats.databases[k].data_size > 0
          /\ stats.databases[k].objects > 0

\* every task of the stats pass has finished and its result was taken
StatsPassFinished ==
    \A i \in 1..Len(db_tasks) :
       /\ db_tasks[i].state = "consumed"
       /\ \A j \in 1..Len(db_tasks[i].coll_state) : db_tasks[i].coll_state[j] = "done"
\* a step of the calling thread that takes the result of one database task
TakesOneResult ==
    \E i \in 1..Len(db_tasks) :
       /\ db_tasks[i].state = "returned"
       /\ db_tasks' = [db_tasks EXCEPT ![i].state = "consumed"]
       /\ stats'.databases = Append(stats.databases, db_tasks[i].db_stats)
       /\ stats'.collections = stats.collections \o db_tasks[i].collection_stats
\* a step of one database task that takes the result of one of its
\* collection tasks
TakesOneCollection(i) ==
    /\ db_tasks[i].state = "pool"
    /\ \E j \in 1..Len(db_tasks[i].coll_state) :
          /\ db_tasks[i].coll_state[j] = "running"
          /\ db_tasks'[i].coll_state[j] = "done"
          /\ Len(db_tasks'[i].collection_stats) = Len(db_tasks[i].collection_stats) + 1
          /\ db_tasks'[i].collection_stats[Len(db_tasks'[i].collection_stats)].namespace
                = Namespace(db_tasks[i].name, db_tasks[i].coll_names[j])

-----------------------------------------------------------------------------
(* Properties of the repeated property pass                                *)

\* the issues and the recommendation text of every index of a list
IssuesAndTexts(list) ==
    [k \in 1..Len(list) |->
        [issues |-> list[k].issues, text |-> RecText(list[k].recommendation)]]

\* C23: the property pass is idempotent: its second application (lines 167-168),
\* to indexes that already went through it at construction, leaves the issues
\* list and the recommendation text of every index as they were.
C23_PropertyPassIdempotent ==
    [][AnalyzeAndReturn => IssuesAndTexts(result') = IssuesAndTexts(detailed_indexes)]_vars

-----------------------------------------------------------------------------
(* Properties of the recorded field types                                  *)

\* the documents of the sample the loop has processed, in order
Processed == SubSeq(sample, 1, Len(sample) - Len(todo))

\* every field path of a document with the runtime type of the value the
\* document holds there, an array being entered through its first element
RECURSIVE FieldValues(_, _)
FieldValues(obj, path) ==
    IF ~IsDict(obj) THEN <<>>
    ELSE Flatten([k \in 1..Len(obj.keys) |->
            LET field_path == IF path # "" THEN path \o "." \o obj.keys[k]
                              ELSE obj.keys[k]
                value == obj.vals[k]
            IN  <<[key |-> field_path, value |-> value.t]>> \o
                (IF IsDict(value) THEN FieldValues(value, field_path)
                 ELSE IF IsList(value) /\ value.vals # <<>>
                      THEN FieldValues(value.vals[1], field_path \o "[]")
                      ELSE <<>>)])

\* the paths and types of every processed document
ProcessedValues == [d \in 1..Len(Processed) |-> FieldValues(Processed[d], "")]
PathKeys(entries) == {entries[k].key : k \in 1..Len(entries)}
ValueOf(entries, name) == entries[CHOOSE k \in 1..Len(entries) : entries[k].key = name].value

\* the type of the value of a path in the first of the documents that has it
FirstValueType(values, name) ==
    LET first == CHOOSE d \in 1..Len(values) :
                    /\ name \in PathKeys(values[d])
                    /\ \A earlier \in 1..(d - 1) : name \notin PathKeys(values[earlier])
    IN  ValueOf(values[first], name)

InLoop == spc = "loop" \/ StructureAnalysed

-----------------------------------------------------------------------------
(* Properties of the recommendation of a flagged index                     *)

\* C27: in the list the index analysis returns, an index whose issues list is
\* non-empty never carries the recommendation text "No issues detected".
C27_FlaggedIndexHasRecommendation ==
    pc = "done" =>
        \A i \in 1..Len(result) :
            result[i].issues # <<>> =>
                RecText(result[i].recommendation) # "No issues detected"

-----------------------------------------------------------------------------
(* Properties of the snapshot a full run returns                           *)

\* the positions of the snapshot's collections that carry a namespace
Appearances(namespace) ==
    {k \in 1..Len(stats.collections) : stats.collections[k].namespace = namespace}

\* C26: in a run with fastMode = false in which every client call succeeds,
\* every collection listed for an included database that is not prefixed
\* 'system.' and is not a view appears exactly once in the snapshot's
\* collections: the collector asks the client only for what the client
\* provides.
C26_EveryCollectionAppearsOnce ==
    (Returned /\ ~fast_mode /\ reachable /\ ConnectivityFailures = {}) =>
        \A i \in 1..Len(db_tasks) :
           \A c \in AnswerableCollections(db_tasks[i].name) :
              Cardinality(Appearances(Namespace(db_tasks[i].name, c.name))) = 1

-----------------------------------------------------------------------------
(* Properties of a fast-mode run                                           *)

\* the positions of the snapshot's databases that carry a name
DatabaseAppearances(db_name) ==
    {k \in 1..Len(stats.databases) : stats.databases[k].name = db_name}

\* C30: in a fast-mode run the collection-level fan-out is never started: no
\* collection task is submitted and the snapshot's collections list stays
\* empty whatever collections the included databases contain, while each
\* included database whose stats call succeeded contributes exactly one
\* DatabaseStats.
C30_FastModeHasNoCollectionFanOut ==
    (fast_mode /\ cpc \notin {"idle", "start", "databases"}) =>
        /\ stats.collections = <<>>
        /\ \A i \in 1..Len(db_tasks) :
              /\ db_tasks[i].state # "pool"
              /\ db_tasks[i].coll_names = <<>>
              /\ db_tasks[i].coll_state = <<>>
              /\ db_tasks[i].collection_stats = <<>>
        /\ Returned =>
              /\ Len(stats.databases) = Len(db_tasks)
              /\ \A i \in 1..Len(db_tasks) :
                    ClientError("get_database_stats", db_tasks[i].name, <<>>) \notin log
                    => \E k \in 1..Len(stats.databases) :
                          /\ DatabaseAppearances(db_tasks[i].name) = {k}
                          /\ stats.databases[k] =
                                DatabaseStatsOf(db_tasks[i].name,
                                                ClusterDb(db_tasks[i].name).db_stats)

\* a fast-mode run has returned the statistics of a database that holds
\* collections a full run would submit
C30_Witness ==
    /\ Returned
    /\ fast_mode
    /\ \E i \in 1..Len(db_tasks) :
          /\ Cardinality(AnswerableCollections(db_tasks[i].name)) >= 2
          /\ ClientError("get_database_stats", db_tasks[i].name, <<>>) \notin log
          /\ DatabaseAppearances(db_tasks[i].name) # {}

-----------------------------------------------------------------------------
(* Properties of the end of a run                                          *)

\* C28: every call of collect_all_stats terminates and returns a snapshot
\* without raising, provided each client call eventually returns or raises;
\* it returns only after every submitted database task and collection task
\* has completed, whether the task succeeded or failed.
C28_RunTerminatesAfterEveryTask ==
    /\ <>Returned
    /\ [](Returned =>
            /\ StatsPassFinished
            /\ Len(stats.databases) = Len(db_tasks))

\* a run has returned in which collection tasks failed and driver calls met an
\* unreachable cluster
C28_Witness ==
    /\ Returned
    /\ StatsPassFinished
    /\ FailedCollectionTasks # {}
    /\ ConnectivityFailures # {}
    /\ \E i \in 1..Len(db_tasks) : Len(db_tasks[i].coll_state) >= 2

-----------------------------------------------------------------------------
(* Properties of the enhancement pass                                      *)

CacheWrites(namespace) ==
    {k \in 1..Len(cache_events) :
        cache_events[k].op = "write" /\ cache_events[k].key = namespace}
CacheReads == {k \in 1..Len(cache_events) : cache_events[k].op = "read"}
\* the collections the loop has gone past that line 478 lets through
Enhanced ==
    {p \in 1..Len(collected) :
        p < position /\ ~StartsWith(collected[p].name, SystemPrefix)}

\* C25: for every collection enhanced in a run, the size-stats cache entry of
\* its namespace is written exactly once, by the thread of the pass and
\* before that collection's structure analysis reads it (the write is the
\* cache access just before the read); nothing else writes the cache, and the
\* structure analysis of a namespace reads the sizes this run collected for
\* that same collection.
C25_CacheWrittenOnceBeforeRead ==
    /\ [](epc # "idle" =>
            /\ \A p \in Enhanced :
                  Cardinality(CacheWrites(collected[p].namespace)) = 1
            /\ \A r \in CacheReads :
                  LET read == cache_events[r]
                  IN  /\ read.by \in 1..Len(collected)
                      /\ read.key = collected[read.by].namespace
                      /\ read.value = SizeStatsOf(collected[read.by])
                      /\ r > 1
                      /\ cache_events[r - 1] =
                            CacheEvent("write", read.key, read.by, read.value)
                      /\ CacheWrites(read.key) = {r - 1})
    /\ [][collection_stats_cache' # collection_stats_cache =>
             /\ CacheStats
             /\ Len(cache_events') = Len(cache_events) + 1]_vars

\* in a second pass over the same analyzer, whose cache still holds an entry
\* of the first pass for a namespace of this pass, a structure analysis has
\* read the cache
C25_Witness ==
    /\ pass = "second"
    /\ CacheReads # {}
    /\ \E p \in 1..Len(collected) :
          /\ p >= position
          /\ ~StartsWith(collected[p].name, SystemPrefix)
          /\ DictHas(collection_stats_cache, collected[p].namespace)

\* what a stats pass recorded for a collection
CollectedFields(collection) ==
    [name |-> collection.name, namespace |-> collection.namespace,
     count |-> collection.count, size |-> collection.size,
     storage_size |-> collection.storage_size, nindexes |-> collection.nindexes]
\* the collections an analysis of which logged an exception
FailedEnhancements ==
    {p \in 1..Len(collected) :
        \E r \in enh_log : Namespace(r.db, r.coll) = collected[p].namespace}

\* C29: in the sequential enhancement pass an exception raised while one
\* collection is enhanced (in its index analysis or its structure analysis)
\* is confined to that collection: the pass goes on to its end, every
\* collected non-system collection is enhanced, those whose analyses did not
\* fail with complete results, and every collection keeps the size and count
\* statistics it came with.
C29_EnhancementFailureConfined ==
    /\ [](epc = "done" =>
            /\ position = Len(collected) + 1
            /\ \A p \in Enhanced :
                  /\ collected[p].detailed_indexes # NoValue
                  /\ collected[p].structure_analysis # NoValue
                  /\ collected[p].structure_analysis.namespace = collected[p].namespace
                  /\ p \notin FailedEnhancements =>
                        collected[p].detailed_indexes = [analysed |-> collected[p].nindexes])
    /\ [][(epc # "done" /\ epc # "idle") =>
             /\ Len(collected') = Len(collected)
             /\ \A p \in 1..Len(collected) :
                   CollectedFields(collected'[p]) = CollectedFields(collected[p])]_vars

\* both analyses of the first collection failed, and the second collection
\* has its indexes analysed and its fragmentation measured
C29_Witness ==
    /\ epc = "done"
    /\ Len(collected) = 2
    /\ \E r1, r2 \in enh_log :
          /\ r1.origin = "analyze_collection_indexes"
          /\ r2.origin = "analyze_collection_structure"
          /\ Namespace(r1.db, r1.coll) = collected[1].namespace
          /\ Namespace(r2.db, r2.coll) = collected[1].namespace
    /\ CollectedFields(collected[1]).count > 0
    /\ 2 \in Enhanced
    /\ 2 \notin FailedEnhancements
    /\ collected[2].detailed_indexes = [analysed |-> collected[2].nindexes]
    /\ collected[2].structure_analysis.wasted_space_bytes > 0

====
